---- MODULE Spec2Model ----
(***************************************************************************)
(* External dependency resolution of mesonbuild/dependencies.py.           *)
(*                                                                         *)
(* One process performs a sequence of find_external_dependency calls.      *)
(* The process-wide state is the class attributes PkgConfigDependency.     *)
(* class_pkgbin and WxDependency.wx_found; every call sees a host (the      *)
(* programs, pkg-config database and files present when it runs) and an    *)
(* option bag (kwargs).                                                    *)
(*                                                                         *)
(* Python values: True/False/None and other scalars are the strings        *)
(* "True", "False", "None", ...; a str that the code slices, strips or     *)
(* splits is a sequence of atoms (an atom is an indivisible run of         *)
(* characters, whitespace atoms are " " and "\n"); a Python list is a      *)
(* sequence; a dict is a function whose DOMAIN is its key set.             *)
(***************************************************************************)
EXTENDS Naturals, Sequences, FiniteSets, TLC

VARIABLES
    class_pkgbin,   \* PkgConfigDependency.class_pkgbin: "None", "False" or a path
    wx_found,       \* WxDependency.wx_found: "None" or "True"
    phase,          \* "idle": no call in progress; "keyed": the caller has computed
                    \* the identifier of its request; "returned": a call has ended
    name,           \* the name argument of the call that ended
    request,        \* the option bag as the caller passed it
    kwargs,         \* the caller's option bag after the call
    host,           \* the host state the call ran against
    outcome,        \* what the call did: exception or result object, probes
    identifier,     \* the tuple get_dep_identifier returned for the request
    cached          \* the caller's record of the call it kept last, under its key

vars == <<class_pkgbin, wx_found, phase, name, request, kwargs, host, outcome,
          identifier, cached>>

----------------------------------------------------------------------------
(* Bounds of the enumerated inputs *)

\* longest raw tool output (in atoms) enumerated by the pkg-config specification
MaxOut == 3

\* most options a request carries
MaxOpts == 2

----------------------------------------------------------------------------
(* Python helpers *)

IsBool(v) == v \in {"True", "False"}

\* Python truthiness of a scalar
Truthy(v) == v \notin {"False", "None", ""}

PyNot(v) == IF Truthy(v) THEN "False" ELSE "True"

\* the value of F at e, with e evaluated once (a local variable assignment)
Bind(e, F(_)) == CHOOSE r \in {F(x) : x \in {e}} : TRUE

\* dict.get(key, default)
Get(kw, key, default) == IF key \in DOMAIN kw THEN kw[key] ELSE default

Whitespace == {" ", "\n"}

RECURSIVE LStrip(_)
LStrip(s) == IF s # <<>> /\ Head(s) \in Whitespace THEN LStrip(Tail(s)) ELSE s

RECURSIVE RStrip(_)
RStrip(s) ==
    IF s # <<>> /\ s[Len(s)] \in Whitespace THEN RStrip(SubSeq(s, 1, Len(s) - 1)) ELSE s

\* str.strip()
Strip(s) == RStrip(LStrip(s))

\* str.split(): the maximal runs of non-whitespace atoms, in order
RECURSIVE SplitFrom(_, _, _)
SplitFrom(s, cur, acc) ==
    IF s = <<>> THEN (IF cur = <<>> THEN acc ELSE Append(acc, cur))
    ELSE IF Head(s) \in Whitespace
         THEN SplitFrom(Tail(s), <<>>, IF cur = <<>> THEN acc ELSE Append(acc, cur))
         ELSE SplitFrom(Tail(s), Append(cur, Head(s)), acc)

Split(s) == SplitFrom(s, <<>>, <<>>)

\* str.split(sep): the pieces between separators, empty pieces kept
RECURSIVE SplitOnFrom(_, _, _, _)
SplitOnFrom(s, sep, cur, acc) ==
    IF s = <<>> THEN Append(acc, cur)
    ELSE IF Head(s) = sep
         THEN SplitOnFrom(Tail(s), sep, <<>>, Append(acc, cur))
         ELSE SplitOnFrom(Tail(s), sep, Append(cur, Head(s)), acc)

SplitOn(s, sep) == SplitOnFrom(s, sep, <<>>, <<>>)

\* s[1:-1]
Slice1m1(s) == SubSeq(s, 2, Len(s) - 1)

\* str.endswith(".la")
EndsWithLa(tok) == tok # <<>> /\ tok[Len(tok)] = ".la"

\* index of the last "/" atom of a path, 0 when there is none
LastSlash(p) ==
    LET I == {i \in 1..Len(p) : p[i] = "/"}
    IN IF I = {} THEN 0 ELSE CHOOSE i \in I : \A j \in I : j <= i

RECURSIVE RStripSlash(_)
RStripSlash(p) ==
    IF p # <<>> /\ p[Len(p)] = "/" THEN RStripSlash(SubSeq(p, 1, Len(p) - 1)) ELSE p

\* os.path.dirname
Dirname(p) ==
    LET head == SubSeq(p, 1, LastSlash(p))
    IN IF head # <<>> /\ RStripSlash(head) # <<>> THEN RStripSlash(head) ELSE head

\* os.path.basename
Basename(p) == SubSeq(p, LastSlash(p) + 1, Len(p))

\* os.path.join(a, b)
PathJoin(a, b) ==
    IF b # <<>> /\ Head(b) = "/" THEN b
    ELSE IF a = <<>> \/ a[Len(a)] = "/" THEN a \o b
    ELSE a \o <<"/">> \o b

\* str.lower() on the names the model uses
Lower(s) ==
    CASE s = "GTest" -> "gtest"
      [] s = "SDL2" -> "sdl2"
      [] s = "Foo" -> "foo"
      [] s = "Python" -> "python"
      [] s = "QtCore" -> "qtcore"
      [] s = "QtGui" -> "qtgui"
      [] s = "QtOther" -> "qtother"
      [] OTHER -> s

----------------------------------------------------------------------------
(* Exceptions *)

\* an exception: its class, its message, and what the message cites
Exc(type, msg) ==
    [type |-> type, msg |-> msg, not_found |-> <<>>, modversion |-> <<>>,
     checked |-> <<>>]

NoExc == Exc("", "")

Raised(r) == r.exc.type # ""

----------------------------------------------------------------------------
(* class Dependency *)

UnsupportedMsg == "Unsupported detection method"

In(x, seq) == \E i \in 1..Len(seq) : seq[i] = x

\* an __init__ that allows every method of the kind whatever method is named
DependencyInit_every(get_methods, kw) ==
    LET method == Get(kw, "method", "auto")
    IN IF method = "auto" \/ In(method, get_methods)
       THEN [exc |-> NoExc, methods |-> get_methods]
       ELSE [exc |-> Exc("MesonException", UnsupportedMsg), methods |-> <<>>]

\* Dependency.__init__: the detection methods allowed by kwargs['method']
DependencyInit(get_methods, kw) ==
    LET method == Get(kw, "method", "auto")
    IN IF method = "auto" THEN [exc |-> NoExc, methods |-> get_methods]
       ELSE IF In(method, get_methods)
            THEN [exc |-> NoExc, methods |-> <<method>>]
            ELSE [exc |-> Exc("MesonException", UnsupportedMsg), methods |-> <<>>]

Dependency_get_methods == <<"auto">>

\* a probe of the host: an external command run or a filesystem access
Probe(mech, bin, op, arg) == [mech |-> mech, bin |-> bin, op |-> op, arg |-> arg]

----------------------------------------------------------------------------
(* Version Matcher (mesonlib.version_compare_many, imported at line 28) *)

\* the numeric segments of a version string
VersionSegments(v) ==
    CASE v = "1.9" -> <<1, 9>>
      [] v = "1.10" -> <<1, 10>>
      [] v = "2.0" -> <<2, 0>>
      [] v = "2.4.3" -> <<2, 4, 3>>
      [] v = "3.0" -> <<3, 0>>
      [] OTHER -> <<>>

\* the segments of a reported version: the text is one version atom
TextSegments(t) == IF Len(t) = 1 THEN VersionSegments(t[1]) ELSE <<>>

\* a < b, segment by segment, a proper prefix being smaller
RECURSIVE SegLess(_, _)
SegLess(a, b) ==
    IF b = <<>> THEN FALSE
    ELSE IF a = <<>> THEN TRUE
    ELSE IF Head(a) # Head(b) THEN Head(a) < Head(b)
    ELSE SegLess(Tail(a), Tail(b))

\* the place of a segment below 100 when segments are ordered as text, "10"
\* before "9"
TextRank(n) == IF n < 10 THEN n * 100 ELSE (n \div 10) * 100 + (n % 10) + 1

\* a comparison that orders the segments as text instead of as numbers
version_compare_textual(segs, c) ==
    LET a == [i \in DOMAIN segs |-> TextRank(segs[i])]
        b == [i \in DOMAIN VersionSegments(c.ver) |-> TextRank(VersionSegments(c.ver)[i])]
    IN CASE c.op = ">=" -> ~SegLess(a, b)
         [] c.op = "<=" -> ~SegLess(b, a)
         [] c.op = ">" -> SegLess(b, a)
         [] c.op = "<" -> SegLess(a, b)
         [] c.op = "!=" -> a # b
         [] OTHER -> a = b

\* version_compare(vstr1, constraint): constraint is [op, ver]
version_compare(segs, c) ==
    LET b == VersionSegments(c.ver)
    IN CASE c.op = ">=" -> ~SegLess(segs, b)
         [] c.op = "<=" -> ~SegLess(b, segs)
         [] c.op = ">" -> SegLess(b, segs)
         [] c.op = "<" -> SegLess(segs, b)
         [] c.op = "!=" -> segs # b
         [] OTHER -> segs = b

RECURSIVE SelectReqs(_, _, _)
SelectReqs(segs, reqs, want) ==
    IF reqs = <<>> THEN <<>>
    ELSE (IF version_compare(segs, Head(reqs)) = want THEN <<Head(reqs)>> ELSE <<>>)
         \o SelectReqs(segs, Tail(reqs), want)

\* version_compare_many(vstr1, conditions) -> (ok, not_found, found)
version_compare_many(vstr1, conditions) ==
    LET segs == TextSegments(vstr1)
        not_found == SelectReqs(segs, conditions, FALSE)
    IN [ok |-> not_found = <<>>, not_found |-> not_found,
        found |-> SelectReqs(segs, conditions, TRUE)]

----------------------------------------------------------------------------
(* class PkgConfigDependency *)

PkgConfigDependency_get_methods == <<"pkgconfig">>

\* shutil.which(pkgbin) for a bare program name
WhichPath(prog) == IF prog = "pkg-config" THEN "/usr/bin/pkg-config" ELSE prog

\* os.path.isabs of a program name
IsAbsProg(prog) == prog \in {"/usr/bin/pkg-config", "/opt/bin/pkg-config"}

\* PkgConfigDependency.check_pkgconfig: the host pkg-config, "False" when the
\* --version run fails or the program cannot be launched
check_pkgconfig(h) ==
    LET pkgbin0 == IF h.PKG_CONFIG # "absent" THEN h.PKG_CONFIG ELSE "pkg-config"
        pkgbin1 == IF h.pkgconfig_run = "ok" THEN pkgbin0 ELSE "False"
    IN IF Truthy(pkgbin1) /\ ~IsAbsProg(pkgbin1) /\ h.which_pkgconfig
       THEN WhichPath(pkgbin1) ELSE pkgbin1

\* PkgConfigDependency._call_pkgbin: (returncode, out.strip())
call_pkgbin(h, pkg, what) ==
    IF pkg \in DOMAIN h.pc
    THEN [ret |-> h.pc[pkg][what].ret, out |-> Strip(h.pc[pkg][what].out)]
    ELSE [ret |-> 1, out |-> <<>>]

\* PkgConfigDependency.extract_field: the value of the first line
\* "fieldname=..." with its first and last character removed, None otherwise
RECURSIVE extract_field(_, _)
extract_field(lines, fieldname) ==
    IF lines = <<>> THEN [exc |-> NoExc, none |-> TRUE, val |-> <<>>]
    ELSE LET arr == SplitOn(Strip(Head(lines)), "=")
         IN IF arr[1] = <<fieldname>>
            THEN IF Len(arr) < 2
                 THEN [exc |-> Exc("IndexError", "list index out of range"),
                       none |-> FALSE, val |-> <<>>]
                 ELSE [exc |-> NoExc, none |-> FALSE, val |-> Slice1m1(arr[2])]
            ELSE extract_field(Tail(lines), fieldname)

\* PkgConfigDependency.extract_libtool_shlib: the shared library a .la file names
extract_libtool_shlib(h, la_file) ==
    IF la_file \notin DOMAIN h.la_files
    THEN [exc |-> Exc("FileNotFoundError", "open"), none |-> FALSE, val |-> <<>>]
    ELSE Bind(extract_field(h.la_files[la_file], "dlname"), LAMBDA dlname :
         Bind(extract_field(h.la_files[la_file], "libdir"), LAMBDA libdir :
            IF Raised(dlname) \/ dlname.none THEN dlname
            ELSE IF h.platform = "osx"
                 THEN IF Raised(libdir) THEN libdir
                      ELSE IF libdir.none
                           THEN [dlname EXCEPT !.val = Basename(dlname.val)]
                           ELSE [dlname EXCEPT
                                    !.val = PathJoin(libdir.val, Basename(dlname.val))]
                 ELSE [dlname EXCEPT !.val = Basename(dlname.val)]))

\* one token of the --libs output: a .la token is replaced by the shared library
\* found beside it or in .libs
resolve_lib(h, lib) ==
    IF ~EndsWithLa(lib) THEN [exc |-> NoExc, lib |-> lib, is_libtool |-> FALSE]
    ELSE Bind(extract_libtool_shlib(h, lib), LAMBDA shared_libname :
         LET direct == PathJoin(Dirname(lib), shared_libname.val)
             dotlibs == PathJoin(PathJoin(Dirname(lib), <<".libs">>), shared_libname.val)
         IN IF Raised(shared_libname)
            THEN [exc |-> shared_libname.exc, lib |-> lib, is_libtool |-> FALSE]
            ELSE IF shared_libname.none
            THEN [exc |-> Exc("TypeError", "join of None"), lib |-> lib,
                  is_libtool |-> FALSE]
            ELSE IF direct \in h.exists
            THEN [exc |-> NoExc, lib |-> direct, is_libtool |-> TRUE]
            ELSE IF dotlibs \in h.exists
            THEN [exc |-> NoExc, lib |-> dotlibs, is_libtool |-> TRUE]
            ELSE [exc |-> Exc("DependencyException",
                              "could not compute the actual shared library path"),
                  lib |-> lib, is_libtool |-> FALSE])

\* the loop of _set_libs over the tokens of the --libs output
RECURSIVE set_libs_loop(_, _, _)
set_libs_loop(h, toks, self) ==
    Bind(self, LAMBDA acc :
    IF toks = <<>> THEN acc
    ELSE Bind(resolve_lib(h, Head(toks)), LAMBDA r :
         IF Raised(r) THEN [acc EXCEPT !.exc = r.exc]
         ELSE set_libs_loop(h, Tail(toks),
                            [acc EXCEPT !.libs = Append(@, r.lib),
                                        !.is_libtool = @ \/ r.is_libtool])))

\* the attributes of a PkgConfigDependency as __init__ first sets them;
\* returned records that __init__ has executed a return statement
PkgFresh(cpb, required, want_cross) ==
    [exc |-> NoExc, returned |-> FALSE, is_found |-> FALSE, modversion |-> <<"none">>,
     cargs |-> <<>>, libs |-> <<>>, is_libtool |-> FALSE, pkgbin |-> "None",
     required |-> required, want_cross |-> want_cross, class_pkgbin |-> cpb,
     probes |-> <<>>]

PkgRaise(o, type, msg) == [o EXCEPT !.exc = Exc(type, msg)]

\* the statements F that follow e in __init__, unless e raised or returned
Then(e, F(_)) == Bind(e, LAMBDA o : IF Raised(o) \/ o.returned THEN o ELSE F(o))

\* PkgConfigDependency._set_libs
set_libs(pname, h, kw, self) ==
    Bind(self, LAMBDA o :
    LET op == IF Get(kw, "static", "False") = "True" THEN "--libs --static" ELSE "--libs"
        r == call_pkgbin(h, pname, "libs")
        o1 == [o EXCEPT !.probes = Append(@, Probe("pkgconfig", o.pkgbin, op, pname))]
    IN IF r.ret # 0
       THEN PkgRaise(o1, "DependencyException", "Could not generate libs")
       ELSE set_libs_loop(h, Split(r.out), [o1 EXCEPT !.libs = <<>>]))

\* _set_cargs keeping the --cflags output as one argument
set_cargs_unsplit(pname, h, self) ==
    Bind(self, LAMBDA o :
    LET r == call_pkgbin(h, pname, "cflags")
        o1 == [o EXCEPT !.probes = Append(@, Probe("pkgconfig", o.pkgbin, "--cflags", pname))]
    IN IF r.ret # 0
       THEN PkgRaise(o1, "DependencyException", "Could not generate cargs")
       ELSE [o1 EXCEPT !.cargs = <<r.out>>])

\* PkgConfigDependency._set_cargs
set_cargs(pname, h, self) ==
    Bind(self, LAMBDA o :
    LET r == call_pkgbin(h, pname, "cflags")
        o1 == [o EXCEPT !.probes = Append(@, Probe("pkgconfig", o.pkgbin, "--cflags", pname))]
    IN IF r.ret # 0
       THEN PkgRaise(o1, "DependencyException", "Could not generate cargs")
       ELSE [o1 EXCEPT !.cargs = Split(r.out)])

\* __init__ lines 196-204: fetch the compile and the link arguments
PkgFetchArgs(pname, h, kw, o) ==
    Bind(set_cargs(pname, h, o), LAMBDA o1 :
    IF Raised(o1) THEN o1 ELSE set_libs(pname, h, kw, o1))

\* __init__ accepting whatever version the tool reports
PkgCheckVersion_unchecked(pname, h, kw, o) == [o EXCEPT !.is_found = TRUE]

\* __init__ lines 172-195: the version constraints
PkgCheckVersion(pname, h, kw, o) ==
    IF "version" \notin DOMAIN kw
    THEN [o EXCEPT !.is_found = TRUE]
    ELSE IF kw["version"].type \notin {"str", "list"}
    THEN PkgRaise(o, "DependencyException", "Version argument must be string or list.")
    ELSE Bind(version_compare_many(o.modversion, kw["version"].items), LAMBDA cmp :
         IF ~cmp.ok
         THEN IF Truthy(o.required)
              THEN [o EXCEPT !.exc = [Exc("DependencyException",
                                          "Invalid version of dependency")
                                         EXCEPT !.not_found = cmp.not_found,
                                                !.modversion = o.modversion]]
              ELSE [o EXCEPT !.returned = TRUE]
         ELSE [o EXCEPT !.is_found = TRUE])

\* __init__ lines 154-171: the --modversion query
PkgModversion(pname, h, kw, o) ==
    IF ~Truthy(o.pkgbin)
    THEN IF Truthy(o.required)
         THEN PkgRaise(o, "DependencyException", "Pkg-config not found.")
         ELSE [o EXCEPT !.returned = TRUE]
    ELSE LET r == call_pkgbin(h, pname, "modversion")
             o1 == [o EXCEPT !.modversion = r.out,
                             !.probes = Append(@, Probe("pkgconfig", o.pkgbin,
                                                        "--modversion", pname))]
         IN IF r.ret # 0
            THEN IF Truthy(o.required)
                 THEN PkgRaise(o1, "DependencyException", "dependency not found")
                 ELSE [o1 EXCEPT !.returned = TRUE]
            ELSE o1

\* __init__ looking up the host pkg-config whatever machine is asked for
PkgLocate_host(pname, h, kw, o) ==
    LET pkgbin == check_pkgconfig(h)
    IN [o EXCEPT !.pkgbin = pkgbin, !.class_pkgbin = pkgbin,
                 !.probes = Append(@, Probe("pkgconfig", "PKG_CONFIG", "--version", ""))]

\* __init__ lines 130-152: which pkg-config binary to run
PkgLocate(pname, h, kw, o) ==
    IF o.want_cross
    THEN IF "pkgconfig" \notin DOMAIN h.cross_binaries
         THEN IF Truthy(o.required)
              THEN PkgRaise(o, "DependencyException",
                            "Pkg-config binary missing from cross file")
              ELSE o
         ELSE LET pkgname == h.cross_binaries["pkgconfig"]
                  o1 == [o EXCEPT !.probes = Append(@, Probe("pkgconfig", pkgname,
                                                             "which", ""))]
              IN IF pkgname \in h.programs
                 THEN [o1 EXCEPT !.pkgbin = pkgname, !.class_pkgbin = pkgname]
                 ELSE o1
    ELSE IF o.class_pkgbin = "None"
    THEN LET pkgbin == check_pkgconfig(h)
         IN [o EXCEPT !.pkgbin = pkgbin, !.class_pkgbin = pkgbin,
                      !.probes = Append(@, Probe("pkgconfig", "PKG_CONFIG",
                                                 "--version", ""))]
    ELSE [o EXCEPT !.pkgbin = o.class_pkgbin]

\* lines 110-129: Dependency.__init__, the static option, the machine
PkgStart(h, kw, cpb) ==
    LET base == DependencyInit(PkgConfigDependency_get_methods, kw)
        want_cross == IF "native" \in DOMAIN kw /\ h.cross
                      THEN ~Truthy(kw["native"]) ELSE h.cross
        o == PkgFresh(cpb, Get(kw, "required", "True"), want_cross)
    IN IF Raised(base) THEN [o EXCEPT !.exc = base.exc]
       ELSE IF ~IsBool(Get(kw, "static", "False"))
       THEN PkgRaise(o, "DependencyException", "Static keyword must be boolean")
       ELSE o

\* PkgConfigDependency.__init__(name, environment, kwargs), cpb the class_pkgbin
\* it finds; the result carries the object's attributes, the exception raised
\* (if any), the class_pkgbin it leaves and the probes it made
PkgConfigDependency(pname, h, kw, cpb) ==
    Then(Then(Then(Then(PkgStart(h, kw, cpb),
                        LAMBDA o : PkgLocate(pname, h, kw, o)),
                   LAMBDA o : PkgModversion(pname, h, kw, o)),
              LAMBDA o : PkgCheckVersion(pname, h, kw, o)),
         LAMBDA o : PkgFetchArgs(pname, h, kw, o))

\* PkgConfigDependency.get_pkgconfig_variable: (exception, value)
get_pkgconfig_variable(h, o, pname, variable_name) ==
    LET r == IF pname \in DOMAIN h.pc /\ variable_name \in DOMAIN h.pc[pname].variables
             THEN [ret |-> 0, out |-> h.pc[pname].variables[variable_name]]
             ELSE [ret |-> 1, out |-> ""]
    IN IF r.ret # 0
       THEN IF Truthy(o.required)
            THEN [exc |-> Exc("DependencyException", "dependency not found."), val |-> ""]
            ELSE [exc |-> NoExc, val |-> ""]
       ELSE [exc |-> NoExc, val |-> r.out]

----------------------------------------------------------------------------
(* Result objects: what the accessors of the Capability Contract answer.    *)
(* broken is the set of accessors that raise because the attribute they     *)
(* read was never set.                                                      *)

Dep(cls, found, version, cargs, largs, sources, threads, broken) ==
    [cls |-> cls, found |-> found, version |-> version, cargs |-> cargs,
     largs |-> largs, sources |-> sources, threads |-> threads, broken |-> broken]

\* the object of a constructor that raised: there is none
NoDep == Dep("", FALSE, <<>>, <<>>, <<>>, <<>>, FALSE, {})

\* what a constructor or a call does: exception or object, the caller's option
\* bag and the class attributes it leaves, the probes it made in order
Outcome(exc, dep, kw, cpb, wxf, probes) ==
    [exc |-> exc, dep |-> IF exc.type # "" THEN NoDep ELSE dep, kwargs |-> kw,
     class_pkgbin |-> cpb, wx_found |-> wxf, probes |-> probes]

\* the accessors of a PkgConfigDependency (lines 258-268, 299-300)
PkgDep(o) == Dep("PkgConfigDependency", o.is_found, o.modversion, o.cargs, o.libs,
                 <<>>, FALSE, {})

----------------------------------------------------------------------------
(* class ExtraFrameworkDependency *)

FrameworkRoot == <<"/", "Library", "/", "Frameworks">>

LowerText(t) == [i \in 1..Len(t) |-> Lower(t[i])]

\* ExtraFrameworkDependency.detect: the first listed entry whose stem is the
\* name (case-insensitively) and which is a directory
RECURSIVE framework_scan(_, _, _)
framework_scan(lname, p, entries) ==
    IF entries = <<>> THEN [exc |-> NoExc, found |-> FALSE, path |-> <<>>, name |-> <<>>]
    ELSE LET d == Head(entries)
         IN IF <<lname>> # LowerText(SplitOn(d.d, ".")[1])
            THEN framework_scan(lname, p, Tail(entries))
            ELSE IF d.kind = "gone"
            THEN [exc |-> Exc("FileNotFoundError", "stat"), found |-> FALSE,
                  path |-> <<>>, name |-> <<>>]
            ELSE IF d.kind # "dir" THEN framework_scan(lname, p, Tail(entries))
            ELSE [exc |-> NoExc, found |-> TRUE, path |-> p, name |-> d.d]

ExtraFrameworkDependency_detect(h, fname, path) ==
    LET p == IF path = <<>> THEN FrameworkRoot ELSE path
    IN IF p \notin DOMAIN h.frameworks
       THEN [exc |-> Exc("FileNotFoundError", "listdir"), found |-> FALSE,
             path |-> <<>>, name |-> <<>>]
       ELSE framework_scan(Lower(fname), p, h.frameworks[p])

\* ExtraFrameworkDependency.__init__(name, required, path, kwargs); path <<>> is None
ExtraFrameworkDependency(fname, required, path, kw, h) ==
    LET base == DependencyInit(Dependency_get_methods, kw)
        r == ExtraFrameworkDependency_detect(h, fname, path)
        probes == <<Probe("extraframework", "", "listdir", fname)>>
    IN IF Raised(base)
       THEN [exc |-> base.exc, found |-> FALSE, path |-> <<>>, name |-> <<>>,
             probes |-> <<>>]
       ELSE [exc |-> r.exc, found |-> r.found, path |-> r.path, name |-> r.name,
             probes |-> probes]

\* the accessors of an ExtraFrameworkDependency (lines 1432-1446)
FrameworkDep(fw) ==
    Dep("ExtraFrameworkDependency", fw.found, <<"unknown">>,
        IF fw.found
        THEN <<<<"-I">> \o PathJoin(PathJoin(fw.path, fw.name), <<"Headers">>)>>
        ELSE <<>>,
        IF fw.found
        THEN <<<<"-F">> \o fw.path, <<"-framework">>, SplitOn(fw.name, ".")[1]>>
        ELSE <<>>,
        <<>>, FALSE, {})

----------------------------------------------------------------------------
(* find_external_dependency: names that are not registered kinds *)

\* lines 1583-1601
find_generic(dname, h, kw, cpb, wxf) ==
    LET required == Get(kw, "required", "True")
    IN Bind(PkgConfigDependency(dname, h, kw, cpb), LAMBDA pkgdep :
       Bind(ExtraFrameworkDependency(dname, required, <<>>, kw, h), LAMBDA fwdep :
       IF ~Raised(pkgdep) /\ pkgdep.is_found
       THEN Outcome(NoExc, PkgDep(pkgdep), kw, pkgdep.class_pkgbin, wxf, pkgdep.probes)
       ELSE IF h.platform = "osx"
       THEN IF Raised(fwdep)
            THEN Outcome(fwdep.exc, NoDep, kw, pkgdep.class_pkgbin, wxf,
                         pkgdep.probes \o fwdep.probes)
            ELSE IF Truthy(required) /\ ~fwdep.found
            THEN Outcome(Exc("DependencyException",
                             "not found, tried Extra Frameworks and Pkg-Config"),
                         NoDep, kw, pkgdep.class_pkgbin, wxf,
                         pkgdep.probes \o fwdep.probes)
            ELSE Outcome(NoExc, FrameworkDep(fwdep), kw, pkgdep.class_pkgbin, wxf,
                         pkgdep.probes \o fwdep.probes)
       ELSE IF Raised(pkgdep)
       THEN Outcome(pkgdep.exc, NoDep, kw, pkgdep.class_pkgbin, wxf, pkgdep.probes)
       ELSE Outcome(NoExc, PkgDep(pkgdep), kw, pkgdep.class_pkgbin, wxf, pkgdep.probes)))

----------------------------------------------------------------------------
(* class GLDependency *)

GLDependency_get_methods(h) ==
    IF h.platform \in {"osx", "windows"} THEN <<"pkgconfig", "system">>
    ELSE <<"pkgconfig">>

\* GLDependency.__init__; GLDependency defines no get_compile_args, so the
\* accessor is Dependency.get_compile_args and answers []
GLDependency(h, kw, cpb, wxf) ==
    Bind(PkgConfigDependency("gl", h, kw, cpb), LAMBDA pcdep :
    LET base == DependencyInit(GLDependency_get_methods(h), kw)
        try == In("pkgconfig", base.methods)
        cpb1 == IF try THEN pcdep.class_pkgbin ELSE cpb
        probes == IF try THEN pcdep.probes ELSE <<>>
    IN IF Raised(base) THEN Outcome(base.exc, NoDep, kw, cpb, wxf, <<>>)
       ELSE IF try /\ ~Raised(pcdep) /\ pcdep.is_found
       THEN Outcome(NoExc, Dep("GLDependency", TRUE, pcdep.modversion, <<>>,
                               pcdep.libs, <<>>, FALSE, {}),
                    kw, cpb1, wxf, probes)
       ELSE IF In("system", base.methods) /\ h.platform = "osx"
       THEN Outcome(NoExc, Dep("GLDependency", TRUE, <<"1">>, <<>>,
                               <<<<"-framework">>, <<"OpenGL">>>>, <<>>, FALSE, {}),
                    kw, cpb1, wxf, probes)
       ELSE IF In("system", base.methods) /\ h.platform = "windows"
       THEN Outcome(NoExc, Dep("GLDependency", TRUE, <<"1">>, <<>>,
                               <<<<"-lopengl32">>>>, <<>>, FALSE, {}),
                    kw, cpb1, wxf, probes)
       ELSE Outcome(NoExc, Dep("GLDependency", FALSE, <<>>, <<>>, <<>>, <<>>, FALSE,
                               {"get_version"}),
                    kw, cpb1, wxf, probes))

----------------------------------------------------------------------------
(* class SDL2Dependency *)

SDL2Dependency_get_methods(h) ==
    IF h.platform = "osx" THEN <<"pkgconfig", "sdlconfig", "extraframework">>
    ELSE <<"pkgconfig", "sdlconfig">>

\* lines 1375-1384: the framework scan, and the object left when nothing found
SDL2Framework(h, kw, methods, cpb, wxf, probes) ==
    Bind(ExtraFrameworkDependency("sdl2", Get(kw, "required", "True"), <<>>, kw, h),
         LAMBDA fwdep :
    LET notfound == Dep("SDL2Dependency", FALSE, <<>>, <<>>, <<>>, <<>>, FALSE,
                        {"get_version"})
    IN IF In("extraframework", methods) /\ h.platform = "osx"
       THEN IF Raised(fwdep)
            THEN Outcome(fwdep.exc, NoDep, kw, cpb, wxf, probes \o fwdep.probes)
            ELSE IF fwdep.found
            THEN Outcome(NoExc, Dep("SDL2Dependency", TRUE, <<"2">>,
                                    FrameworkDep(fwdep).cargs, FrameworkDep(fwdep).largs,
                                    <<>>, FALSE, {}),
                         kw, cpb, wxf, probes \o fwdep.probes)
            ELSE Outcome(NoExc, notfound, kw, cpb, wxf, probes \o fwdep.probes)
       ELSE Outcome(NoExc, notfound, kw, cpb, wxf, probes))

\* lines 1361-1374: sdl2-config
SDL2Config(h, kw, methods, cpb, wxf, probes) ==
    LET which == <<Probe("sdlconfig", "sdl2-config", "which", "")>>
        runs == <<Probe("sdlconfig", "sdl2-config", "--cflags", ""),
                  Probe("sdlconfig", "sdl2-config", "--libs", ""),
                  Probe("sdlconfig", "sdl2-config", "--version", "")>>
    IN IF ~In("sdlconfig", methods)
       THEN SDL2Framework(h, kw, methods, cpb, wxf, probes)
       ELSE IF "sdl2-config" \in h.programs
       THEN Outcome(NoExc, Dep("SDL2Dependency", TRUE, Strip(h.sdl2config.version),
                               Split(Strip(h.sdl2config.cflags)),
                               Split(Strip(h.sdl2config.libs)), <<>>, FALSE, {}),
                    kw, cpb, wxf, probes \o which \o runs)
       ELSE SDL2Framework(h, kw, methods, cpb, wxf, probes \o which)

\* an __init__ that asks sdl2-config and the framework before pkg-config
SDL2Dependency_configfirst(h, kw, cpb, wxf) ==
    Bind(DependencyInit(SDL2Dependency_get_methods(h), kw), LAMBDA base :
    Bind(SDL2Config(h, kw, base.methods, cpb, wxf, <<>>), LAMBDA first :
    Bind(PkgConfigDependency("sdl2", h, kw, cpb), LAMBDA pcdep :
    IF Raised(base) THEN Outcome(base.exc, NoDep, kw, cpb, wxf, <<>>)
    ELSE IF Raised(first) \/ first.dep.found \/ ~In("pkgconfig", base.methods)
    THEN first
    ELSE IF ~Raised(pcdep) /\ pcdep.is_found
    THEN Outcome(NoExc, Dep("SDL2Dependency", TRUE, pcdep.modversion, pcdep.cargs,
                            pcdep.libs, <<>>, FALSE, {}),
                 kw, pcdep.class_pkgbin, wxf, first.probes \o pcdep.probes)
    ELSE Outcome(NoExc, first.dep, kw, pcdep.class_pkgbin, wxf,
                 first.probes \o pcdep.probes))))

\* SDL2Dependency.__init__
SDL2Dependency(h, kw, cpb, wxf) ==
    Bind(PkgConfigDependency("sdl2", h, kw, cpb), LAMBDA pcdep :
    LET base == DependencyInit(SDL2Dependency_get_methods(h), kw)
        try == In("pkgconfig", base.methods)
        cpb1 == IF try THEN pcdep.class_pkgbin ELSE cpb
        probes == IF try THEN pcdep.probes ELSE <<>>
    IN IF Raised(base) THEN Outcome(base.exc, NoDep, kw, cpb, wxf, <<>>)
       ELSE IF try /\ ~Raised(pcdep) /\ pcdep.is_found
       THEN Outcome(NoExc, Dep("SDL2Dependency", TRUE, pcdep.modversion, pcdep.cargs,
                               pcdep.libs, <<>>, FALSE, {}),
                    kw, cpb1, wxf, probes)
       ELSE SDL2Config(h, kw, base.methods, cpb1, wxf, probes))

----------------------------------------------------------------------------
(* class Python3Dependency *)

Python3Dependency_get_methods(h) ==
    IF h.platform = "windows" THEN <<"pkgconfig", "sysconfig">>
    ELSE IF h.platform = "osx" THEN <<"pkgconfig", "extraframework">>
    ELSE <<"pkgconfig">>

\* lines 1479-1493: sysconfig on Windows, the framework on OSX
Python3Fallback(h, kw, methods, cpb, wxf, probes) ==
    Bind(ExtraFrameworkDependency("python", "False", <<>>, kw, h), LAMBDA fw :
    LET notfound == Dep("Python3Dependency", FALSE, <<"3">>, <<>>, <<>>, <<>>, FALSE,
                        {"get_compile_args", "get_link_args"})
    IN IF h.platform = "windows" /\ In("sysconfig", methods)
       THEN IF h.py3arch = "match"
            THEN Outcome(NoExc, Dep("Python3Dependency", TRUE, <<"3.6">>,
                                    <<<<"-I", "include">>>>,
                                    <<<<"-L", "base", "/", "libs">>, <<"-lpython", "36">>>>,
                                    <<>>, FALSE, {}),
                         kw, cpb, wxf, Append(probes, Probe("sysconfig", "", "arch", "")))
            ELSE Outcome(NoExc, notfound, kw, cpb, wxf,
                         Append(probes, Probe("sysconfig", "", "arch", "")))
       ELSE IF h.platform = "osx" /\ In("extraframework", methods)
       THEN IF Raised(fw) THEN Outcome(fw.exc, NoDep, kw, cpb, wxf, probes \o fw.probes)
            ELSE IF fw.found
            THEN Outcome(NoExc, Dep("Python3Dependency", TRUE, <<"3">>,
                                    FrameworkDep(fw).cargs, FrameworkDep(fw).largs,
                                    <<>>, FALSE, {}),
                         kw, cpb, wxf, probes \o fw.probes)
            ELSE Outcome(NoExc, notfound, kw, cpb, wxf, probes \o fw.probes)
       ELSE Outcome(NoExc, notfound, kw, cpb, wxf, probes))

\* Python3Dependency.__init__
Python3Dependency(h, kw, cpb, wxf) ==
    Bind(PkgConfigDependency("python3", h, kw, cpb), LAMBDA pkgdep :
    LET base == DependencyInit(Python3Dependency_get_methods(h), kw)
        try == In("pkgconfig", base.methods)
        cpb1 == IF try THEN pkgdep.class_pkgbin ELSE cpb
        probes == IF try THEN pkgdep.probes ELSE <<>>
    IN IF Raised(base) THEN Outcome(base.exc, NoDep, kw, cpb, wxf, <<>>)
       ELSE IF try /\ ~Raised(pkgdep) /\ pkgdep.is_found
       THEN Outcome(NoExc, Dep("Python3Dependency", TRUE, pkgdep.modversion,
                               pkgdep.cargs, pkgdep.libs, <<>>, FALSE, {}),
                    kw, cpb1, wxf, probes)
       ELSE Python3Fallback(h, kw, base.methods, cpb1, wxf, probes))

----------------------------------------------------------------------------
(* class ValgrindDependency, class ThreadDependency *)

\* ValgrindDependency.__init__: a PkgConfigDependency whose get_link_args is []
ValgrindDependency(h, kw, cpb, wxf) ==
    Bind(PkgConfigDependency("valgrind", h, kw, cpb), LAMBDA o :
    Outcome(o.exc, [PkgDep(o) EXCEPT !.cls = "ValgrindDependency", !.largs = <<>>],
            kw, o.class_pkgbin, wxf, o.probes))

\* ThreadDependency.__init__: super().__init__('threads') omits the kwargs
\* argument that Dependency.__init__(self, type_name, kwargs) requires
ThreadDependency(h, kw, cpb, wxf) ==
    Outcome(Exc("TypeError", "__init__() missing 1 required positional argument"),
            NoDep, kw, cpb, wxf, <<>>)

----------------------------------------------------------------------------
(* class QtBaseDependency, Qt4Dependency, Qt5Dependency *)

QtBaseDependency_get_methods == <<"pkgconfig", "qmake">>

\* qtpkgname + module, the pkg-config package of a Qt module
QtPkg(qname, module) ==
    IF qname = "qt4" THEN
        CASE module = "Core" -> "QtCore" [] module = "Gui" -> "QtGui"
          [] OTHER -> "QtOther"
    ELSE
        CASE module = "Core" -> "Qt5Core" [] module = "Gui" -> "Qt5Gui"
          [] OTHER -> "Qt5Other"

\* lines 1027-1029: one PkgConfigDependency per module, in order; an exception
\* of a constructor ends the loop
RECURSIVE QtPkgModules(_, _, _, _, _)
QtPkgModules(qname, mods, h, kw, self) ==
    Bind(self, LAMBDA acc :
    IF mods = <<>> THEN acc
    ELSE Bind(PkgConfigDependency(QtPkg(qname, Head(mods)), h, kw, acc.class_pkgbin),
              LAMBDA o :
         LET acc1 == [acc EXCEPT !.class_pkgbin = o.class_pkgbin,
                                 !.probes = @ \o o.probes]
         IN IF Raised(o) THEN [acc1 EXCEPT !.exc = o.exc]
            ELSE QtPkgModules(qname, Tail(mods), h, kw,
                              [acc1 EXCEPT !.objs = Append(@, o)])))

\* lines 1030-1037: collect the arguments of the modules up to the first one
\* that is not found
RECURSIVE QtCollect(_, _)
QtCollect(objs, self) ==
    Bind(self, LAMBDA q :
    IF objs = <<>> THEN q
    ELSE IF ~Head(objs).is_found THEN [q EXCEPT !.is_found = FALSE]
    ELSE QtCollect(Tail(objs), [q EXCEPT !.cargs = @ \o Head(objs).cargs,
                                         !.largs = @ \o Head(objs).libs]))

\* Qt4Dependency.get_pkgconfig_host_bins: the directory of the first tool
\* location that can be queried; None ("") when every query raises
RECURSIVE Qt4HostBins(_, _, _, _)
Qt4HostBins(h, core, corepkg, applications) ==
    IF applications = <<>> THEN ""
    ELSE Bind(get_pkgconfig_variable(h, core, corepkg, Head(applications)), LAMBDA r :
         IF Raised(r) THEN Qt4HostBins(h, core, corepkg, Tail(applications))
         ELSE r.val)

Qt4Applications ==
    <<"moc_location", "uic_location", "rcc_location", "lupdate_location",
      "lrelease_location">>

\* get_pkgconfig_host_bins of Qt5Dependency and Qt4Dependency
get_pkgconfig_host_bins(qname, h, core, corepkg) ==
    IF qname = "qt5" THEN get_pkgconfig_variable(h, core, corepkg, "host_bins")
    ELSE [exc |-> NoExc, val |-> Qt4HostBins(h, core, corepkg, Qt4Applications)]

\* lines 1038-1050: the directory of moc, uic and rcc, from the Core package
QtBindir(qname, h, kw, objs, mods, self) ==
    Bind(self, LAMBDA q :
    Bind(PkgConfigDependency(QtPkg(qname, "Core"), h,
                             [required |-> "'false'", silent |-> "'true'"],
                             q.class_pkgbin),
         LAMBDA made :
    Bind(IF In("Core", mods)
         THEN objs[CHOOSE i \in 1..Len(mods) : mods[i] = "Core"] ELSE made,
         LAMBDA core :
    Bind(IF In("Core", mods) THEN q
         ELSE [q EXCEPT !.class_pkgbin = made.class_pkgbin, !.probes = @ \o made.probes],
         LAMBDA q1 :
    Bind(get_pkgconfig_host_bins(qname, h, core, QtPkg(qname, "Core")), LAMBDA bins :
    Bind(get_pkgconfig_variable(h, core, QtPkg(qname, "Core"), "exec_prefix"),
         LAMBDA prefix :
    IF Raised(core) THEN [q1 EXCEPT !.exc = core.exc]
    ELSE IF Raised(bins) THEN [q1 EXCEPT !.exc = bins.exc]
    ELSE IF bins.val # "" THEN [q1 EXCEPT !.bindir = bins.val]
    ELSE IF Raised(prefix) THEN [q1 EXCEPT !.exc = prefix.exc]
    ELSE IF prefix.val # "" THEN [q1 EXCEPT !.bindir = prefix.val]
    ELSE q1))))))

\* QtBaseDependency._pkgconfig_detect
pkgconfig_detect(qname, mods, h, kw, q) ==
    Bind(QtPkgModules(qname, mods, h, kw,
                      [exc |-> NoExc, objs |-> <<>>,
                       class_pkgbin |-> q.class_pkgbin, probes |-> q.probes]),
         LAMBDA built :
    Bind([q EXCEPT !.class_pkgbin = built.class_pkgbin, !.probes = built.probes],
         LAMBDA q1 :
    Bind(QtCollect(built.objs, [q1 EXCEPT !.is_found = TRUE]), LAMBDA q2 :
    IF Raised(built) THEN [q1 EXCEPT !.exc = built.exc]
    ELSE IF ~q2.is_found THEN q2
    ELSE QtBindir(qname, h, kw, built.objs, mods,
                  [q2 EXCEPT !.version = built.objs[Len(built.objs)].modversion]))))

QmakeName(qname) == IF qname = "qt5" THEN "qmake-qt5" ELSE "qmake-qt4"

\* self.qtver = name[-1]
QtVer(qname) == IF qname = "qt5" THEN "5" ELSE "4"

\* self.qtpkgname
QtPkgName(qname) == IF qname = "qt4" THEN "Qt" ELSE "Qt5"

\* 'Qt' + module, the framework and include directory of a module
QtFw(module) ==
    CASE module = "Core" -> "QtCore" [] module = "Gui" -> "QtGui" [] OTHER -> "QtOther"

QtLibDir == <<"/", "qt", "/", "lib">>

QtIncDir == <<"/", "qt", "/", "include">>

\* environment.for_windows(is_cross, env): whether the build targets Windows
for_windows(h) == IF h.cross THEN h.cross_windows ELSE h.platform = "windows"

\* QtBaseDependency._find_qmake: the program ExternalProgram is asked for
find_qmake(h, qmake) ==
    IF h.cross THEN Get(h.cross_binaries, "qmake", qmake) ELSE qmake

\* lines 1060-1075: the first candidate that is found, runs and is for this Qt;
\* "" when there is none
RECURSIVE QmakeSearch(_, _, _, _)
QmakeSearch(qname, h, candidates, self) ==
    Bind(self, LAMBDA probes :
    IF candidates = <<>> THEN [prog |-> "", probes |-> probes]
    ELSE LET prog == find_qmake(h, Head(candidates))
             p1 == Append(probes, Probe("qmake", prog, "which", ""))
             p2 == Append(p1, Probe("qmake", prog, "-v", ""))
         IN IF prog \notin h.programs \/ prog \notin DOMAIN h.qmake
            THEN QmakeSearch(qname, h, Tail(candidates), p1)
            ELSE IF h.qmake[prog].ret # 0 \/ h.qmake[prog].qtver # QtVer(qname)
            THEN QmakeSearch(qname, h, Tail(candidates), p2)
            ELSE [prog |-> prog, probes |-> p2])

\* QtBaseDependency._framework_detect
RECURSIVE framework_detect(_, _, _, _)
framework_detect(h, mods, kw, self) ==
    Bind(self, LAMBDA q :
    IF mods = <<>> THEN q
    ELSE Bind(ExtraFrameworkDependency(QtFw(Head(mods)), Get(kw, "required", "True"),
                                       QtLibDir, kw, h),
              LAMBDA fwdep :
         LET q1 == [q EXCEPT !.probes = @ \o fwdep.probes]
             q2 == [q1 EXCEPT !.cargs = Append(@, <<"-F">> \o QtLibDir)]
         IN IF Raised(fwdep) THEN [q1 EXCEPT !.exc = fwdep.exc]
            ELSE IF fwdep.found
            THEN framework_detect(h, Tail(mods), kw,
                     [q2 EXCEPT !.is_found = TRUE,
                                !.cargs = @ \o FrameworkDep(fwdep).cargs,
                                !.largs = @ \o FrameworkDep(fwdep).largs])
            ELSE framework_detect(h, Tail(mods), kw, q2)))

\* lines 1095-1111: one include directory and one library file per module, up
\* to the first module whose library file is missing
RECURSIVE QmakeModules(_, _, _, _)
QmakeModules(qname, h, mods, self) ==
    Bind(self, LAMBDA q :
    IF mods = <<>> THEN q
    ELSE LET module == Head(mods)
             q1 == [q EXCEPT !.cargs = Append(@, <<"-I">> \o QtIncDir \o <<"/", QtFw(module)>>),
                             !.probes = Append(@, Probe("qmake", "", "isfile", module))]
             lib == IF for_windows(h)
                    THEN QtLibDir \o <<"/", QtPkgName(qname), module, ".lib">>
                    ELSE QtLibDir \o <<"/", "lib", QtPkgName(qname), module, ".so">>
             dll == <<"/", "qt", "/", "bin", "/", QtPkgName(qname), module, ".dll">>
         IN IF lib \in h.exists
            THEN QmakeModules(qname, h, Tail(mods), [q1 EXCEPT !.largs = Append(@, lib)])
            ELSE IF for_windows(h) /\ dll \in h.exists
            THEN QmakeModules(qname, h, Tail(mods), [q1 EXCEPT !.largs = Append(@, dll)])
            ELSE [q1 EXCEPT !.is_found = FALSE])

\* QtBaseDependency._qmake_detect
qmake_detect(qname, mods, h, kw, q) ==
    Bind(QmakeSearch(qname, h, <<QmakeName(qname), "qmake">>, q.probes), LAMBDA found :
    IF found.prog = "" THEN [q EXCEPT !.probes = found.probes]
    ELSE Bind([q EXCEPT !.version = h.qmake[found.prog].version,
                        !.probes = Append(found.probes,
                                          Probe("qmake", found.prog, "-query", ""))],
              LAMBDA q2 :
         IF ~h.qmake[found.prog].query_ok
         THEN [q2 EXCEPT !.exc = Exc("KeyError", "QT_INSTALL_LIBS")]
         ELSE IF h.platform = "osx" THEN framework_detect(h, mods, kw, q2)
         ELSE QmakeModules(qname, h, mods,
                           [q2 EXCEPT !.cargs = Append(@, <<"-I">> \o QtIncDir),
                                      !.bindir = "bins", !.is_found = TRUE])))

\* a report that names every mechanism, attempted or not
QtChecked_all(qname, methods, qmake_tried) == <<"pkgconfig", QmakeName(qname), "qmake">>

\* the mechanisms QtBaseDependency reports as checked
QtChecked(qname, methods, qmake_tried) ==
    (IF In("pkgconfig", methods) THEN <<"pkgconfig">> ELSE <<>>)
    \o (IF qmake_tried THEN <<QmakeName(qname), "qmake">> ELSE <<>>)

\* the mechanisms in order, the arguments and the version of a failed
\* attempt left as they are
QtDetect_keep(qname, mods, h, kw, required, methods, q) ==
    Bind(IF In("pkgconfig", methods) THEN pkgconfig_detect(qname, mods, h, kw, q) ELSE q,
         LAMBDA q1 :
    IF Raised(q1) THEN q1
    ELSE
    Bind(IF ~q1.is_found /\ In("qmake", methods)
         THEN qmake_detect(qname, mods, h, kw, q1) ELSE q1,
         LAMBDA q2 :
    IF Raised(q2) \/ q2.is_found \/ ~Truthy(required) THEN q2
    ELSE [q2 EXCEPT !.exc = Exc("DependencyException", "dependency not found (checked)")]))

\* lines 985-1010: the mechanisms in order, then the verdict
QtDetect(qname, mods, h, kw, required, methods, q) ==
    Bind(IF In("pkgconfig", methods) THEN pkgconfig_detect(qname, mods, h, kw, q) ELSE q,
         LAMBDA q1 :
    IF Raised(q1) THEN q1
    ELSE
    Bind(IF ~q1.is_found /\ In("qmake", methods)
         THEN qmake_detect(qname, mods, h, kw, q1) ELSE q1,
         LAMBDA q2 :
    Bind(QtChecked(qname, methods, ~q1.is_found /\ In("qmake", methods)), LAMBDA m2 :
    IF Raised(q2) THEN q2
    ELSE IF ~q2.is_found
    THEN IF Truthy(required)
         THEN [q2 EXCEPT !.cargs = <<>>, !.largs = <<>>, !.version = <<"none">>,
                         !.checked = m2,
                         !.exc = [Exc("DependencyException",
                                      "dependency not found (checked)")
                                     EXCEPT !.checked = m2]]
         ELSE [q2 EXCEPT !.cargs = <<>>, !.largs = <<>>, !.version = <<"none">>,
                         !.checked = m2]
    ELSE [q2 EXCEPT !.checked = m2])))

\* QtBaseDependency.__init__(name, env, kwargs): kwargs['required'] is popped
\* and set to False in the caller's dict
QtBaseDependency(qname, h, kw, cpb, wxf) ==
    Bind(DependencyInit(QtBaseDependency_get_methods, kw), LAMBDA base :
    Bind([k \in DOMAIN kw \cup {"required"} |-> IF k = "required" THEN "False" ELSE kw[k]],
         LAMBDA kw1 :
    Bind(Get(kw1, "modules", [type |-> "list", items |-> <<>>]), LAMBDA modarg :
    IF Raised(base) THEN Outcome(base.exc, NoDep, kw, cpb, wxf, <<>>)
    ELSE IF Len(modarg.items) = 0
    THEN Outcome(Exc("DependencyException", "No modules specified."), NoDep, kw1,
                 cpb, wxf, <<>>)
    ELSE IF modarg.type = "badlist"
    THEN Outcome(Exc("TypeError", "sequence item: expected str instance"), NoDep,
                 kw1, cpb, wxf, <<>>)
    ELSE Bind(QtDetect(qname, modarg.items, h, kw1, Get(kw, "required", "True"),
                       base.methods,
                       [exc |-> NoExc, is_found |-> FALSE, cargs |-> <<>>, largs |-> <<>>,
                        version |-> <<>>, bindir |-> "", checked |-> <<>>,
                        class_pkgbin |-> cpb, probes |-> <<>>]),
              LAMBDA q :
         Outcome(q.exc, Dep("QtBaseDependency", q.is_found, q.version, q.cargs,
                            q.largs, <<>>, FALSE, {}),
                 kw1, q.class_pkgbin, wxf, q.probes)))))

----------------------------------------------------------------------------
(* class BoostDependency *)

\* BoostDependency.get_requested / WxDependency.get_requested: the module list,
\* a single string counting as a one-element list
get_requested(kw) == Get(kw, "modules", [type |-> "list", items |-> <<>>])

\* BoostDependency.detect_src_modules: the names of the listed entries that
\* are directories; os.stat raises for an entry that is gone
RECURSIVE detect_src_modules(_, _)
detect_src_modules(entries, acc) ==
    IF entries = <<>> THEN acc
    ELSE IF Head(entries).kind = "gone"
    THEN [acc EXCEPT !.exc = Exc("FileNotFoundError", "stat")]
    ELSE detect_src_modules(Tail(entries),
            IF Head(entries).kind = "dir"
            THEN [acc EXCEPT !.src_modules = @ \cup {Head(entries).d}]
            ELSE acc)

\* BoostDependency.get_link_args for the modules found by the library scan
RECURSIVE BoostLinkArgs(_, _)
BoostLinkArgs(h, mods) ==
    IF mods = <<>> THEN <<>>
    ELSE (IF Head(mods) \in h.boost.lib_modules
          THEN <<<<"-lboost_", Head(mods)>>>> ELSE <<>>)
         \o BoostLinkArgs(h, Tail(mods))

\* lines 636-652: version, modules, validation and the C++ compiler
BoostDetect(h, kw, cpb, wxf) ==
    LET version == IF h.boost.version_hpp = "ok" THEN <<"1.62">> ELSE <<>>
        found == h.boost.version_hpp = "ok"
        requested == get_requested(kw)
        probes0 == <<Probe("boost", "", "open", "version.hpp")>>
        probes1 == Append(probes0, Probe("boost", "", "listdir", "boost"))
        src == detect_src_modules(h.boost.entries, [exc |-> NoExc, src_modules |-> {}])
        dep == Dep("BoostDependency", found, version, <<<<"-I", "include">>>>,
                   BoostLinkArgs(h, requested.items), <<>>,
                   In("thread", requested.items), {})
    IN IF requested.type = "badlist"
       THEN Outcome(Exc("DependencyException", "Boost module argument is not a string."),
                    NoDep, kw, cpb, wxf, probes0)
       ELSE IF found /\ Raised(src) THEN Outcome(src.exc, NoDep, kw, cpb, wxf, probes1)
       ELSE IF found /\ \E i \in 1..Len(requested.items) :
                            requested.items[i] \notin src.src_modules
       THEN Outcome(Exc("DependencyException", "Requested Boost module not found."),
                    NoDep, kw, cpb, wxf, probes1)
       ELSE IF "cpp" \notin h.compilers
       THEN Outcome(Exc("DependencyException",
                        "Tried to use Boost but a C++ compiler is not defined."),
                    NoDep, kw, cpb, wxf, IF found THEN probes1 ELSE probes0)
       ELSE Outcome(NoExc, dep, kw, cpb, wxf, IF found THEN probes1 ELSE probes0)

\* BoostDependency.__init__
BoostDependency(h, kw, cpb, wxf) ==
    LET base == DependencyInit(Dependency_get_methods, kw)
        want_cross == IF "native" \in DOMAIN kw /\ h.cross
                      THEN ~Truthy(kw["native"]) ELSE h.cross
    IN IF Raised(base) THEN Outcome(base.exc, NoDep, kw, cpb, wxf, <<>>)
       ELSE IF h.boost.BOOST_ROOT = "relative"
       THEN Outcome(Exc("DependencyException", "BOOST_ROOT must be an absolute path."),
                    NoDep, kw, cpb, wxf, <<>>)
       ELSE IF h.boost.BOOST_ROOT = "absent" /\ want_cross /\ ~h.boost.BOOST_INCLUDEDIR
       THEN Outcome(Exc("DependencyException",
                        "BOOST_ROOT or BOOST_INCLUDEDIR is needed while cross-compiling"),
                    NoDep, kw, cpb, wxf, <<>>)
       ELSE BoostDetect(h, kw, cpb, wxf)

----------------------------------------------------------------------------
(* class GTestDependency, class GMockDependency *)

GTestSrcDirs ==
    << <<"/", "usr", "/", "src", "/", "gtest", "/", "src">>,
       <<"/", "usr", "/", "src", "/", "googletest", "/", "googletest", "/", "src">> >>

GMockSrcDirs ==
    << <<"/", "usr", "/", "src", "/", "googletest", "/", "googlemock", "/", "src">>,
       <<"/", "usr", "/", "src", "/", "gmock", "/", "src">>,
       <<"/", "usr", "/", "src", "/", "gmock">> >>

\* the first directory of the list that exists, <<>> when none does
RECURSIVE FirstExisting(_, _)
FirstExisting(h, dirs) ==
    IF dirs = <<>> THEN <<>>
    ELSE IF Head(dirs) \in h.exists THEN Head(dirs)
    ELSE FirstExisting(h, Tail(dirs))

\* a detect_srcdir that goes through the list from its end
detect_srcdir_last(h) == FirstExisting(h, <<GTestSrcDirs[2], GTestSrcDirs[1]>>)

\* GTestDependency.detect_srcdir
detect_srcdir(h) == FirstExisting(h, GTestSrcDirs)

\* GTestDependency.__init__ and detect
GTestDependency(h, kw, cpb, wxf) ==
    LET base == DependencyInit(Dependency_get_methods, kw)
        main == Get(kw, "main", "False")
        src_dir == detect_srcdir(h)
        probes == <<Probe("gtest", "", "isfile", "libgtest.so"),
                    Probe("gtest", "", "isfile", "libgtest_main.so")>>
        version == <<"1.something_maybe">>
    IN IF Raised(base) THEN Outcome(base.exc, NoDep, kw, cpb, wxf, <<>>)
       ELSE IF "libgtest.so" \in h.libfiles /\ "libgtest_main.so" \in h.libfiles
       THEN Outcome(NoExc,
                    Dep("GTestDependency", TRUE, version, <<>>,
                        <<<<"-lgtest">>>> \o
                            (IF Truthy(main) THEN <<<<"-lgtest_main">>>> ELSE <<>>),
                        <<>>, TRUE, {}),
                    kw, cpb, wxf, probes)
       ELSE IF src_dir # <<>>
       THEN Outcome(NoExc,
                    Dep("GTestDependency", TRUE, version,
                        <<<<"-I">> \o Dirname(src_dir)>>, <<>>,
                        <<PathJoin(src_dir, <<"gtest-all.cc">>)>> \o
                            (IF Truthy(main)
                             THEN <<PathJoin(src_dir, <<"gtest_main.cc">>)>> ELSE <<>>),
                        TRUE, {}),
                    kw, cpb, wxf, Append(probes, Probe("gtest", "", "exists", "src")))
       ELSE Outcome(NoExc,
                    Dep("GTestDependency", FALSE, version, <<>>, <<>>, <<>>, TRUE,
                        {"get_link_args", "get_sources"}),
                    kw, cpb, wxf, Append(probes, Probe("gtest", "", "exists", "src")))

\* GMockDependency.__init__
GMockDependency(h, kw, cpb, wxf) ==
    LET base == DependencyInit(Dependency_get_methods, kw)
        d == FirstExisting(h, GMockSrcDirs)
        probes == <<Probe("gmock", "", "isfile", "libgmock.so")>>
        version == <<"1.something_maybe">>
    IN IF Raised(base) THEN Outcome(base.exc, NoDep, kw, cpb, wxf, <<>>)
       ELSE IF "libgmock.so" \in h.libfiles
       THEN Outcome(NoExc, Dep("GMockDependency", TRUE, version, <<>>, <<<<"-lgmock">>>>,
                               <<>>, FALSE, {}),
                    kw, cpb, wxf, probes)
       ELSE IF d # <<>>
       THEN Outcome(NoExc,
                    Dep("GMockDependency", TRUE, version,
                        <<<<"-I">> \o d, <<"-I">> \o Dirname(d)>>, <<>>,
                        <<PathJoin(d, <<"gmock-all.cc">>)>> \o
                            (IF Truthy(Get(kw, "main", "False"))
                             THEN <<PathJoin(d, <<"gmock_main.cc">>)>> ELSE <<>>),
                        FALSE, {}),
                    kw, cpb, wxf, Append(probes, Probe("gmock", "", "exists", "src")))
       ELSE Outcome(NoExc,
                    Dep("GMockDependency", FALSE, version, <<>>, <<>>, <<>>, FALSE,
                        {"get_compile_args", "get_link_args", "get_sources"}),
                    kw, cpb, wxf, Append(probes, Probe("gmock", "", "exists", "src")))

----------------------------------------------------------------------------
(* class GnuStepDependency *)

\* GnuStepDependency.get_variable and detect_version: a failed variable query
\* raises when required; otherwise make is run under the name it printed
GnuStepVersion(h, kw, cpb, wxf, probes) ==
    LET required == Get(kw, "required", "True")
        p1 == probes \o <<Probe("gnustep", "gnustep-config", "--variable=GNUMAKE", "")>>
        p2 == p1 \o <<Probe("gnustep", "gnustep-config", "--variable=GNUSTEP_MAKEFILES", ""),
                      Probe("gnustep", "gmake", "print-GNUSTEP_BASE_VERSION", "")>>
        dep == Dep("GnuStepDependency", TRUE, <<"1">>, <<<<"-I", "gnustep">>>>,
                   <<<<"-lgnustep-base">>>>, <<>>, FALSE, {})
    IN IF h.gnustep.var_ret # 0 /\ Truthy(required)
       THEN Outcome(Exc("DependencyException", "failed to run"), NoDep, kw, cpb, wxf, p1)
       ELSE IF h.gnustep.var_ret # 0 \/ ~h.gnustep.gmake
       THEN Outcome(Exc("FileNotFoundError", "gmake"), NoDep, kw, cpb, wxf, p2)
       ELSE Outcome(NoExc, dep, kw, cpb, wxf, p2)

\* GnuStepDependency.__init__ and detect
GnuStepDependency(h, kw, cpb, wxf) ==
    LET base == DependencyInit(Dependency_get_methods, kw)
        p0 == <<Probe("gnustep", "gnustep-config", "--help", "")>>
        p1 == Append(p0, Probe("gnustep", "gnustep-config", "--objc-flags", ""))
        p2 == Append(p1, Probe("gnustep", "gnustep-config", "--libs", ""))
        notfound == Dep("GnuStepDependency", FALSE, <<>>, <<>>, <<>>, <<>>, FALSE,
                        {"get_version", "get_link_args"})
    IN IF Raised(base) THEN Outcome(base.exc, NoDep, kw, cpb, wxf, <<>>)
       ELSE IF h.gnustep.help # "ok" THEN Outcome(NoExc, notfound, kw, cpb, wxf, p0)
       ELSE IF h.gnustep.flags_ret # 0
       THEN Outcome(Exc("DependencyException", "Error getting objc-args"), NoDep, kw,
                    cpb, wxf, p1)
       ELSE IF h.gnustep.libs_ret # 0
       THEN Outcome(Exc("DependencyException", "Error getting objc-lib args"), NoDep, kw,
                    cpb, wxf, p2)
       ELSE GnuStepVersion(h, kw, cpb, wxf, p2)

----------------------------------------------------------------------------
(* class AppleFrameworks *)

RECURSIVE FrameworkArgs(_)
FrameworkArgs(mods) ==
    IF mods = <<>> THEN <<>>
    ELSE <<<<"-framework">>, <<Head(mods)>>>> \o FrameworkArgs(Tail(mods))

\* AppleFrameworks.__init__; found() is mesonlib.is_osx()
AppleFrameworks(h, kw, cpb, wxf) ==
    LET base == DependencyInit(Dependency_get_methods, kw)
        modules == get_requested(kw).items
    IN IF Raised(base) THEN Outcome(base.exc, NoDep, kw, cpb, wxf, <<>>)
       ELSE IF Len(modules) = 0
       THEN Outcome(Exc("DependencyException",
                        "AppleFrameworks dependency requires at least one module."),
                    NoDep, kw, cpb, wxf, <<>>)
       ELSE Outcome(NoExc, Dep("AppleFrameworks", h.platform = "osx", <<"unknown">>, <<>>,
                               FrameworkArgs(modules), <<>>, FALSE, {}),
                    kw, cpb, wxf, <<>>)

----------------------------------------------------------------------------
(* class WxDependency *)

\* WxDependency.check_wxconfig: the first of wx-config-3.0, wx-config whose
\* --version run returns 0, "" when neither does; only a success is recorded in
\* wx_found (a failure is written to WxDependency.wxconfig_found)
check_wxconfig(h) ==
    IF "wx-config-3.0" \in h.wx.configs THEN "wx-config-3.0"
    ELSE IF "wx-config" \in h.wx.configs THEN "wx-config"
    ELSE ""

\* lines 350-376: the --version, --cxxflags and --libs runs
WxQuery(h, kw, cpb, wxf, probes) ==
    LET p1 == Append(probes, Probe("wx", "wx-config", "--version", ""))
        p2 == Append(p1, Probe("wx", "wx-config", "--cxxflags", ""))
        p3 == Append(p2, Probe("wx", "wx-config", "--libs", ""))
        modversion == Strip(h.wx.version)
        unset == {"get_compile_args", "get_link_args"}
    IN IF h.wx.version_ret # 0
       THEN Outcome(NoExc, Dep("WxDependency", FALSE, <<"none">>, <<>>, <<>>, <<>>, FALSE, {}),
                    kw, cpb, wxf, p1)
       ELSE IF "version" \in DOMAIN kw
               /\ ~version_compare(TextSegments(modversion), kw["version"].items[1])
       THEN Outcome(NoExc, Dep("WxDependency", FALSE, modversion, <<>>, <<>>, <<>>, FALSE,
                               unset),
                    kw, cpb, wxf, p1)
       ELSE IF get_requested(kw).type = "badlist"
       THEN Outcome(Exc("DependencyException", "wxwidgets module argument is not a string."),
                    NoDep, kw, cpb, wxf, p1)
       ELSE IF h.wx.cxxflags_ret # 0
       THEN Outcome(Exc("DependencyException", "Could not generate cargs for wxwidgets."),
                    NoDep, kw, cpb, wxf, p2)
       ELSE IF h.wx.libs_ret # 0
       THEN Outcome(Exc("DependencyException", "Could not generate libs for wxwidgets."),
                    NoDep, kw, cpb, wxf, p3)
       ELSE Outcome(NoExc, Dep("WxDependency", TRUE, modversion, Split(h.wx.cxxflags),
                               Split(h.wx.libs), <<>>, FALSE, {}),
                    kw, cpb, wxf, p3)

\* WxDependency.__init__: self.wxc is set only by the check_wxconfig of this
\* object, so an object made after wx_found became True has no wxc attribute
WxDependency(h, kw, cpb, wxf) ==
    LET base == DependencyInit(Dependency_get_methods, kw)
        wxc == check_wxconfig(h)
        search == <<Probe("wx", "wx-config", "search", "")>>
    IN IF Raised(base) THEN Outcome(base.exc, NoDep, kw, cpb, wxf, <<>>)
       ELSE IF wxf = "None"
       THEN IF wxc = ""
            THEN Outcome(NoExc,
                         Dep("WxDependency", FALSE, <<"none">>, <<>>, <<>>, <<>>, FALSE,
                             {"get_compile_args", "get_link_args"}),
                         kw, cpb, wxf, search)
            ELSE WxQuery(h, kw, cpb, "True", search)
       ELSE Outcome(Exc("AttributeError", "'WxDependency' object has no attribute 'wxc'"),
                    NoDep, kw, cpb, wxf, <<>>)

----------------------------------------------------------------------------
(* find_external_dependency *)

\* the packages dict (lines 1605-1618)
packages ==
    {"boost", "gtest", "gmock", "qt5", "qt4", "gnustep", "appleframeworks",
     "wxwidgets", "sdl2", "gl", "threads", "python3", "valgrind"}

\* packages[lname](environment, kwargs)
Construct(lname, h, kw, cpb, wxf) ==
    CASE lname = "boost" -> BoostDependency(h, kw, cpb, wxf)
      [] lname = "gtest" -> GTestDependency(h, kw, cpb, wxf)
      [] lname = "gmock" -> GMockDependency(h, kw, cpb, wxf)
      [] lname = "qt5" -> QtBaseDependency("qt5", h, kw, cpb, wxf)
      [] lname = "qt4" -> QtBaseDependency("qt4", h, kw, cpb, wxf)
      [] lname = "gnustep" -> GnuStepDependency(h, kw, cpb, wxf)
      [] lname = "appleframeworks" -> AppleFrameworks(h, kw, cpb, wxf)
      [] lname = "wxwidgets" -> WxDependency(h, kw, cpb, wxf)
      [] lname = "sdl2" -> SDL2Dependency(h, kw, cpb, wxf)
      [] lname = "gl" -> GLDependency(h, kw, cpb, wxf)
      [] lname = "threads" -> ThreadDependency(h, kw, cpb, wxf)
      [] lname = "python3" -> Python3Dependency(h, kw, cpb, wxf)
      [] OTHER -> ValgrindDependency(h, kw, cpb, wxf)

\* a dispatcher that hands back whatever the kind's constructor made
find_registered_lenient(dname, h, kw, cpb, wxf) ==
    Construct(Lower(dname), h, kw, cpb, wxf)

\* lines 1578-1582: a registered kind
find_registered(dname, h, kw, cpb, wxf) ==
    LET required == Get(kw, "required", "True")
    IN Bind(Construct(Lower(dname), h, kw, cpb, wxf), LAMBDA dep :
       IF ~Raised(dep) /\ Truthy(required) /\ ~dep.dep.found
       THEN [dep EXCEPT !.exc = Exc("DependencyException", "Dependency not found"),
                        !.dep = NoDep]
       ELSE dep)

\* a dispatcher that does not look at the type of required
find_external_dependency_unvalidated(dname, h, kw, cpb, wxf) ==
    IF Lower(dname) \in packages THEN find_registered(dname, h, kw, cpb, wxf)
    ELSE find_generic(dname, h, kw, cpb, wxf)

\* find_external_dependency(name, environment, kwargs)
find_external_dependency(dname, h, kw, cpb, wxf) ==
    IF ~IsBool(Get(kw, "required", "True"))
    THEN Outcome(Exc("DependencyException", "Keyword required must be a boolean."),
                 NoDep, kw, cpb, wxf, <<>>)
    ELSE IF Lower(dname) \in packages THEN find_registered(dname, h, kw, cpb, wxf)
    ELSE find_generic(dname, h, kw, cpb, wxf)

----------------------------------------------------------------------------
(* get_dep_identifier *)

\* a key that carries the modules value as given, a string and a one-element
\* list kept apart
get_dep_identifier_typed(dname, kw) ==
    LET modlist == Get(kw, "modules", [type |-> "list", items |-> <<>>])
    IN <<dname, modlist.type>> \o modlist.items
       \o <<"main", Get(kw, "main", "False"), "static", Get(kw, "static", "False")>>
       \o (IF "fallback" \in DOMAIN kw
           THEN <<"fallback", kw["fallback"][1], kw["fallback"][2]>> ELSE <<>>)

\* a key that leaves out the static flag
get_dep_identifier_nostatic(dname, kw) ==
    LET modlist == Get(kw, "modules", [type |-> "list", items |-> <<>>]).items
    IN <<dname>> \o modlist \o <<"main", Get(kw, "main", "False")>>
       \o (IF "fallback" \in DOMAIN kw
           THEN <<"fallback", kw["fallback"][1], kw["fallback"][2]>> ELSE <<>>)

\* get_dep_identifier(name, kwargs): the tuple that identifies a request
get_dep_identifier(dname, kw) ==
    LET modlist0 == Get(kw, "modules", [type |-> "list", items |-> <<>>])
        modlist == IF modlist0.type = "str" THEN <<modlist0.items[1]>> ELSE modlist0.items
        elements == <<dname>> \o modlist
        identifier0 == elements \o <<"main", Get(kw, "main", "False")>>
        identifier1 == identifier0 \o <<"static", Get(kw, "static", "False")>>
    IN IF "fallback" \in DOMAIN kw
       THEN identifier1 \o <<"fallback", kw["fallback"][1], kw["fallback"][2]>>
       ELSE identifier1

----------------------------------------------------------------------------
(* Hosts and requests the calls are made with *)

NoKw == [k \in {} |-> ""]

\* the option bags with at most one value for key, from vals, or without key
Opt(key, vals) == {NoKw} \cup {key :> v : v \in vals}

Both(A, B) == {a @@ b : a \in A, b \in B}

PcEntry(mv_ret, mv_out, cf_ret, cf_out, lb_ret, lb_out) ==
    [modversion |-> [ret |-> mv_ret, out |-> mv_out],
     cflags |-> [ret |-> cf_ret, out |-> cf_out],
     libs |-> [ret |-> lb_ret, out |-> lb_out],
     variables |-> [k \in {} |-> ""]]

PcOk == PcEntry(0, <<"2.4.3", "\n">>, 0, <<"-I/usr/include/foo", "\n">>,
                0, <<"-L/usr/lib", " ", "-lfoo", "\n">>)

PcBadCflags == PcEntry(0, <<"2.4.3", "\n">>, 1, <<>>, 0, <<"-lfoo", "\n">>)

PcBadLibs == PcEntry(0, <<"2.4.3", "\n">>, 0, <<"-I/usr/include/foo", "\n">>, 1, <<>>)

PcAbsent == PcEntry(1, <<>>, 1, <<>>, 1, <<>>)

PcEntries == {PcOk, PcBadCflags, PcBadLibs, PcAbsent}

\* a Linux host with a C and a C++ compiler and nothing else installed
DefaultHost ==
    [platform |-> "linux", cross |-> FALSE, cross_windows |-> FALSE,
     cross_binaries |-> [k \in {} |-> ""], programs |-> {},
     PKG_CONFIG |-> "absent", pkgconfig_run |-> "ENOENT", which_pkgconfig |-> TRUE,
     pc |-> [k \in {} |-> PcAbsent], la_files |-> [k \in {} |-> <<>>], exists |-> {},
     frameworks |-> [k \in {FrameworkRoot} |-> <<>>],
     sdl2config |-> [cflags |-> <<"-I/usr/include/SDL2", "\n">>,
                     libs |-> <<"-lSDL2", "\n">>, version |-> <<"2.0", "\n">>],
     py3arch |-> "match", qmake |-> [k \in {} |-> <<>>],
     boost |-> [BOOST_ROOT |-> "absent", BOOST_INCLUDEDIR |-> FALSE,
                version_hpp |-> "missing", entries |-> <<>>, lib_modules |-> {}],
     compilers |-> {"c", "cpp"}, libfiles |-> {},
     gnustep |-> [help |-> "ENOENT", flags_ret |-> 0, libs_ret |-> 0, var_ret |-> 0,
                  gmake |-> TRUE],
     wx |-> [configs |-> {}, version_ret |-> 0, version |-> <<"3.0", "\n">>,
             cxxflags_ret |-> 0, cxxflags |-> <<"-I/usr/include/wx", "\n">>,
             libs_ret |-> 0, libs |-> <<"-lwx", "\n">>]]

Platforms == {"linux", "osx", "windows"}

\* how pkg-config can be installed: a native build without or with the host
\* pkg-config, or a cross build whose cross file names no pkg-config, one that
\* is not installed, or one that is
ToolSetups ==
    {[cross |-> FALSE, binaries |-> [k \in {} |-> ""], programs |-> {}, run |-> "ENOENT"],
     [cross |-> FALSE, binaries |-> [k \in {} |-> ""], programs |-> {}, run |-> "ok"],
     [cross |-> TRUE, binaries |-> [k \in {} |-> ""], programs |-> {}, run |-> "ok"],
     [cross |-> TRUE, binaries |-> ("pkgconfig" :> "arm-pkg-config"), programs |-> {},
      run |-> "ok"],
     [cross |-> TRUE, binaries |-> ("pkgconfig" :> "arm-pkg-config"),
      programs |-> {"arm-pkg-config"}, run |-> "ok"]}

NativeSetups == {t \in ToolSetups : ~t.cross}

\* the hosts a metadata-tool query of package pkg can meet
PkgHosts(pkg, platforms, setups) ==
    {[DefaultHost EXCEPT !.platform = pl, !.cross = t.cross,
                         !.cross_binaries = t.binaries, !.programs = t.programs,
                         !.pkgconfig_run = t.run, !.pc = (pkg :> e)] :
        pl \in platforms, t \in setups, e \in PcEntries}

\* /Library/Frameworks holding nothing, or a plain file and a framework named fw
FrameworkListings(fw) ==
    {<<>>,
     <<[d |-> <<fw, ".", "txt">>, kind |-> "file"],
       [d |-> <<fw, ".", "framework">>, kind |-> "dir"]>>}

WithFrameworks(H, fw) ==
    {[h EXCEPT !.frameworks = (FrameworkRoot :> l)] :
        h \in {x \in H : x.platform = "osx"}, l \in FrameworkListings(fw)}
    \cup {x \in H : x.platform # "osx"}

VersionMet == [type |-> "str", items |-> <<[op |-> ">=", ver |-> "2.0"]>>]

VersionUnmet ==
    [type |-> "list", items |-> <<[op |-> ">=", ver |-> "2.0"], [op |-> ">=", ver |-> "3.0"]>>]

\* the option bags of S that carry at most MaxOpts options
UpTo(S) == {kw \in S : Cardinality(DOMAIN kw) <= MaxOpts}

RequiredOpt == Opt("required", {"True", "False", "'yes'"})

StaticOpt == Opt("static", {"True", "'yes'"})

\* the options a variant with the detection methods ms reads
KindKw(ms) == UpTo(Both(RequiredOpt, Both(StaticOpt, Opt("method", ms \cup {"bogus"}))))

----------------------------------------------------------------------------
(* The process: calls of find_external_dependency, one after another *)

NoOutcome == [exc |-> NoExc, dep |-> NoDep, probes |-> <<>>]

\* no identifier has been computed
NoKey == <<>>

\* the caller has kept no result yet
NoEntry ==
    [key |-> NoKey, name |-> "", request |-> NoKw, host |-> DefaultHost,
     outcome |-> NoOutcome]

Init ==
    /\ class_pkgbin = "None"
    /\ wx_found = "None"
    /\ phase = "idle"
    /\ name = ""
    /\ request = NoKw
    /\ kwargs = NoKw
    /\ host = DefaultHost
    /\ outcome = NoOutcome
    /\ identifier = NoKey
    /\ cached = NoEntry

\* a call find_external_dependency(dname, h, kw) from start to end
Call(dname, h, kw) ==
    /\ phase = "idle"
    /\ \E env \in {h} :
       \E out \in {find_external_dependency(dname, env, kw, class_pkgbin, wx_found)} :
          /\ phase' = "returned"
          /\ class_pkgbin' = out.class_pkgbin
          /\ wx_found' = out.wx_found
          /\ name' = dname
          /\ request' = kw
          /\ kwargs' = out.kwargs
          /\ host' = env
          /\ outcome' = [exc |-> out.exc, dep |-> out.dep, probes |-> out.probes]
          /\ UNCHANGED <<identifier, cached>>

\* the caller has consumed the result (or the exception): the call's frame is gone
Return ==
    /\ phase = "returned"
    /\ phase' = "idle"
    /\ name' = ""
    /\ request' = NoKw
    /\ kwargs' = NoKw
    /\ host' = DefaultHost
    /\ outcome' = NoOutcome
    /\ identifier' = NoKey
    /\ UNCHANGED <<class_pkgbin, wx_found, cached>>

\* a name that is no registered kind
CallGeneric ==
    /\ phase = "idle"
    /\ \E h \in WithFrameworks(PkgHosts("foo", {"linux", "osx"}, ToolSetups), "Foo"),
          kw \in UpTo(Both(RequiredOpt,
                      Both(StaticOpt,
                      Both(Opt("method", {"auto", "pkgconfig", "bogus"}),
                      Both(Opt("native", {"True", "False"}),
                           Opt("version", {VersionMet, VersionUnmet})))))) :
        Call("foo", h, kw)

\* with or without the programs progs installed
WithPrograms(H, progs) ==
    {[h EXCEPT !.programs = @ \cup x] : h \in H, x \in {{}, progs}}

CallGL ==
    /\ phase = "idle"
    /\ \E h \in PkgHosts("gl", Platforms, ToolSetups),
          kw \in KindKw({"pkgconfig", "system"}) :
        Call("gl", h, kw)

CallSDL2 ==
    /\ phase = "idle"
    /\ \E h \in WithPrograms(WithFrameworks(PkgHosts("sdl2", Platforms, NativeSetups),
                                            "SDL2"), {"sdl2-config"}),
          kw \in KindKw({"pkgconfig", "sdlconfig", "extraframework"}) :
        Call("sdl2", h, kw)

CallPython3 ==
    /\ phase = "idle"
    /\ \E h \in WithFrameworks(PkgHosts("python3", Platforms, NativeSetups), "Python"),
          arch \in {"match", "mismatch"},
          kw \in KindKw({"pkgconfig", "sysconfig", "extraframework"}) :
        /\ arch = "mismatch" => h.platform = "windows"
        /\ Call("python3", [h EXCEPT !.py3arch = arch], kw)

CallValgrind ==
    /\ phase = "idle"
    /\ \E h \in PkgHosts("valgrind", {"linux", "osx"}, ToolSetups),
          kw \in UpTo(Both(KindKw({"pkgconfig"}), Opt("version", {VersionMet, VersionUnmet}))) :
        Call("valgrind", h, kw)

CallThreads ==
    /\ phase = "idle"
    /\ \E pl \in Platforms, kw \in KindKw({"auto"}) :
        Call("threads", [DefaultHost EXCEPT !.platform = pl], kw)

\* the pkg-config entry of a Qt Core package that names its tool directory
PcQtCore == [PcOk EXCEPT !.variables = ("host_bins" :> "/usr/lib/qt/bin")]

QtLib(qname, module) == QtLibDir \o <<"/", "lib", QtPkgName(qname), module, ".so">>

QtWinLib(qname, module) == QtLibDir \o <<"/", QtPkgName(qname), module, ".lib">>

QmakeOk(qname) ==
    [ret |-> 0, qtver |-> QtVer(qname), version |-> <<QtVer(qname), ".9">>,
     query_ok |-> TRUE]

\* hosts where Qt is looked up with pkg-config
QtPkgHosts(qname) ==
    {[DefaultHost EXCEPT !.pkgconfig_run = t.run,
                         !.pc = (QtPkg(qname, "Core") :> core @@ QtPkg(qname, "Gui") :> gui),
                         !.programs = progs,
                         !.qmake = ("qmake" :> QmakeOk(qname)),
                         !.exists = {QtLib(qname, "Core"), QtLib(qname, "Gui")}] :
        t \in NativeSetups, core \in {PcQtCore, PcOk, PcBadCflags, PcAbsent},
        gui \in {PcOk, PcBadLibs, PcAbsent}, progs \in {{}, {"qmake"}}}

\* hosts without pkg-config where Qt is looked up with qmake
QtQmakeHosts(qname) ==
    {[DefaultHost EXCEPT !.platform = pl,
                         !.programs = {"qmake"},
                         !.qmake = ("qmake" :> qm),
                         !.exists = libs,
                         !.frameworks = (QtLibDir :> fw)] :
        pl \in Platforms,
        qm \in {QmakeOk(qname), [QmakeOk(qname) EXCEPT !.qtver = "3"],
                [QmakeOk(qname) EXCEPT !.ret = 1]},
        libs \in {{}, {QtLib(qname, "Core"), QtWinLib(qname, "Core")},
                  {QtLib(qname, "Core"), QtLib(qname, "Gui"),
                   QtWinLib(qname, "Core"), QtWinLib(qname, "Gui")}},
        fw \in {<<>>, <<[d |-> <<"QtCore", ".", "framework">>, kind |-> "dir"]>>}}

QtModules ==
    {[type |-> "str", items |-> <<"Core">>], [type |-> "list", items |-> <<"Gui">>],
     [type |-> "list", items |-> <<"Core", "Gui">>], [type |-> "list", items |-> <<>>]}

CallQt ==
    /\ phase = "idle"
    /\ \E qname \in {"qt4", "qt5"},
          kw \in UpTo(Both(Opt("required", {"True", "False", "'yes'"}),
                      Both(Opt("method", {"pkgconfig", "qmake", "bogus"}),
                      Both(Opt("static", {"'yes'"}), Opt("modules", QtModules))))) :
        \E h \in QtPkgHosts(qname) \cup QtQmakeHosts(qname) : Call(qname, h, kw)

BoostModules ==
    {[type |-> "str", items |-> <<"thread">>],
     [type |-> "list", items |-> <<"thread", "regex">>],
     [type |-> "badlist", items |-> <<"thread">>]}

CallBoost ==
    /\ phase = "idle"
    /\ \E root \in {"absent", "relative", "abs"}, incdir \in BOOLEAN, cross \in BOOLEAN,
          hpp \in {"missing", "nodefine", "ok"},
          entries \in {<<>>, <<[d |-> "thread", kind |-> "dir"]>>,
                       <<[d |-> "thread", kind |-> "dir"], [d |-> "regex", kind |-> "dir"],
                         [d |-> "version.hpp", kind |-> "file"]>>},
          compilers \in {{"c"}, {"c", "cpp"}},
          kw \in UpTo(Both(KindKw({"auto"}), Opt("modules", BoostModules))) :
        Call("boost",
             [DefaultHost EXCEPT !.cross = cross, !.compilers = compilers,
                                 !.boost = [BOOST_ROOT |-> root, BOOST_INCLUDEDIR |-> incdir,
                                            version_hpp |-> hpp, entries |-> entries,
                                            lib_modules |-> {"thread"}]],
             kw)

CallGTest ==
    /\ phase = "idle"
    /\ \E libs \in SUBSET {"libgtest.so", "libgtest_main.so"},
          dirs \in SUBSET {GTestSrcDirs[1], GTestSrcDirs[2]},
          kw \in UpTo(Both(KindKw({"auto"}), Opt("main", {"True", "False"}))) :
        Call("GTest", [DefaultHost EXCEPT !.libfiles = libs, !.exists = dirs], kw)

CallGMock ==
    /\ phase = "idle"
    /\ \E libs \in SUBSET {"libgmock.so"},
          dirs \in SUBSET {GMockSrcDirs[1], GMockSrcDirs[3]},
          kw \in UpTo(Both(KindKw({"auto"}), Opt("main", {"True", "False"}))) :
        Call("gmock", [DefaultHost EXCEPT !.libfiles = libs, !.exists = dirs], kw)

CallGnuStep ==
    /\ phase = "idle"
    /\ \E help \in {"ENOENT", "fail", "ok"}, flags \in {0, 1}, libs \in {0, 1},
          var \in {0, 1}, gmake \in BOOLEAN, kw \in KindKw({"auto"}) :
        Call("gnustep",
             [DefaultHost EXCEPT !.gnustep = [help |-> help, flags_ret |-> flags,
                                              libs_ret |-> libs, var_ret |-> var,
                                              gmake |-> gmake]],
             kw)

CallAppleFrameworks ==
    /\ phase = "idle"
    /\ \E pl \in Platforms,
          kw \in UpTo(Both(KindKw({"auto"}),
                           Opt("modules", {[type |-> "str", items |-> <<"Cocoa">>],
                                           [type |-> "list", items |-> <<>>]}))) :
        Call("appleframeworks", [DefaultHost EXCEPT !.platform = pl], kw)

CallWx ==
    /\ phase = "idle"
    /\ \E configs \in SUBSET {"wx-config-3.0", "wx-config"},
          rets \in [{"version", "cxxflags", "libs"} -> {0, 1}],
          kw \in UpTo(Both(KindKw({"auto"}),
                           Opt("version", {[type |-> "str",
                                            items |-> <<[op |-> ">=", ver |-> "3.0"]>>],
                                           [type |-> "str",
                                            items |-> <<[op |-> "<", ver |-> "3.0"]>>]}))) :
        Call("wxwidgets",
             [DefaultHost EXCEPT !.wx.configs = configs,
                                 !.wx.version_ret = rets["version"],
                                 !.wx.cxxflags_ret = rets["cxxflags"],
                                 !.wx.libs_ret = rets["libs"]],
             kw)

Next ==
    \/ CallGeneric
    \/ CallGL
    \/ CallSDL2
    \/ CallPython3
    \/ CallValgrind
    \/ CallThreads
    \/ CallQt
    \/ CallBoost
    \/ CallGTest
    \/ CallGMock
    \/ CallGnuStep
    \/ CallAppleFrameworks
    \/ CallWx
    \/ Return

Spec == Init /\ [][Next]_vars

----------------------------------------------------------------------------
(* The metadata-tool query in detail: version constraints, raw outputs of   *)
(* the --cflags and --libs queries, libtool archives                        *)

\* a Linux host whose pkg-config runs and knows package foo by the entry e
PkgHost(e) == [DefaultHost EXCEPT !.pkgconfig_run = "ok", !.pc = ("foo" :> e)]

\* the texts of at most n atoms over the alphabet A
RECURSIVE TextsUpTo(_, _)
TextsUpTo(A, n) ==
    IF n = 0 THEN {<<>>}
    ELSE LET T == TextsUpTo(A, n - 1) IN T \cup {Append(t, a) : t \in T, a \in A}

Constraints ==
    {[op |-> o, ver |-> v] : o \in {">=", "<=", ">", "<", "!=", "=="},
                             v \in {"1.9", "1.10", "2.0", "3.0"}}

\* the version option: one constraint string, or a list of one or two
VersionOpts ==
    {[type |-> "str", items |-> <<c>>] : c \in Constraints}
    \cup {[type |-> "list", items |-> <<c>>] : c \in Constraints}
    \cup {[type |-> "list", items |-> <<c, d>>] : c \in Constraints, d \in Constraints}

\* a versioned request against a package that reports version v
CallPkgVersion ==
    /\ phase = "idle"
    /\ \E v \in {"1.9", "1.10", "2.0", "2.4.3", "3.0"}, version \in VersionOpts,
          kw \in RequiredOpt :
        /\ IsBool(Get(kw, "required", "True"))
        /\ Call("foo",
                PkgHost(PcEntry(0, <<v, "\n">>, 0, <<"-I/usr/include/foo", "\n">>,
                                0, <<"-lfoo", "\n">>)),
                kw @@ ("version" :> version))

\* a request against a package whose queries print arbitrary short texts
CallPkgArgs ==
    /\ phase = "idle"
    /\ \E mv \in {<<"2.4.3", "\n">>, <<" ", "2.4.3", " ", "\n">>},
          cf \in TextsUpTo({" ", "\n", "-Ia", "-Ib"}, MaxOut),
          lb \in TextsUpTo({" ", "\n", "-la", "-lb"}, MaxOut),
          kw \in {NoKw, "version" :> VersionMet} :
        Call("foo", PkgHost(PcEntry(0, mv, 0, cf, 0, lb)), kw)

\* the libtool archive /opt/libfoo.la and the places its library can be
LaToken == <<"/", "opt", "/", "libfoo", ".la">>

\* libfoo.so.1, as first character, middle, last character
LibName == <<"l", "ibfoo.so.", "1">>

LaDirect == <<"/", "opt", "/">> \o LibName

LaDotLibs == <<"/", "opt", "/", ".libs", "/">> \o LibName

\* a file whose dlname line carries the bare name
LaUnquoted ==
    << <<"#", " ", "libfoo.la", "\n">>, <<"dlname", "=">> \o LibName \o <<"\n">> >>

\* a file whose dlname line carries the name in quotes, as libtool writes it
LaQuoted ==
    << <<"#", " ", "libfoo.la", "\n">>,
       <<"dlname", "=", "'">> \o LibName \o <<"'", "\n">> >>

LaNoDlname == << <<"#", " ", "libfoo.la", "\n">> >>

\* a request against a package whose --libs output names a libtool archive
CallPkgLibtool ==
    /\ phase = "idle"
    /\ \E la \in {LaToken :> LaUnquoted, LaToken :> LaQuoted, LaToken :> LaNoDlname,
                  [k \in {} |-> <<>>]},
          files \in SUBSET {LaDirect, LaDotLibs, <<"/", "opt", "/", "ibfoo.so.">>,
                            <<"/", "opt", "/", ".libs", "/", "ibfoo.so.">>},
          kw \in Opt("required", {"True", "False"}) :
        Call("foo",
             [PkgHost(PcEntry(0, <<"2.4.3", "\n">>, 0, <<"-I/opt", "\n">>,
                              0, <<"-L/opt", " ">> \o LaToken \o <<"\n">>))
                 EXCEPT !.la_files = la, !.exists = files],
             kw)

NextPkg ==
    \/ CallPkgVersion
    \/ CallPkgArgs
    \/ CallPkgLibtool
    \/ Return

SpecPkg == Init /\ [][NextPkg]_vars

----------------------------------------------------------------------------
(* One cross build: every call of the process sees the same machine, whose  *)
(* cross file names arm-pkg-config and which has that program and the host  *)
(* pkg-config installed; only the packages asked for and the options vary   *)

\* the machine of the cross build, with the pkg-config entry e for package pkg
CrossHost(pkg, e) ==
    [DefaultHost EXCEPT !.cross = TRUE,
                        !.cross_binaries = ("pkgconfig" :> "arm-pkg-config"),
                        !.programs = {"arm-pkg-config"},
                        !.pkgconfig_run = "ok",
                        !.pc = (pkg :> e)]

CrossNames == {"foo", "bar", "valgrind"}

\* a request for the build machine: native=True
CallCrossNative ==
    /\ phase = "idle"
    /\ \E dname \in CrossNames, e \in PcEntries,
          kw \in Both(Opt("required", {"True", "False"}),
                      Opt("version", {VersionMet, VersionUnmet})) :
        Call(dname, CrossHost(dname, e), kw @@ ("native" :> "True"))

\* a request for the target machine: native omitted or False
CallCrossTarget ==
    /\ phase = "idle"
    /\ \E dname \in CrossNames, e \in PcEntries,
          kw \in Both(Opt("required", {"True", "False"}),
                 Both(Opt("native", {"False"}),
                      Opt("version", {VersionMet, VersionUnmet}))) :
        Call(dname, CrossHost(dname, e), kw)

NextCross ==
    \/ CallCrossNative
    \/ CallCrossTarget
    \/ Return

SpecCross == Init /\ [][NextCross]_vars

----------------------------------------------------------------------------
(* A caller that keys its requests: it computes the identifier of a request, *)
(* resolves the request, and keeps the outcome under the identifier          *)

\* the options the identifier reads, and some it does not read
IdentKw ==
    UpTo(Both(Opt("modules", {[type |-> "str", items |-> <<"regex">>],
                              [type |-> "list", items |-> <<"regex">>],
                              [type |-> "list", items |-> <<"regex", "system">>]}),
         Both(Opt("main", {"True"}),
         Both(Opt("static", {"True", "False"}),
         Both(Opt("fallback", {<<"sub", "dep">>}),
         Both(Opt("version", {VersionMet, VersionUnmet}),
              Opt("required", {"False"})))))))

\* the machines of the keyed calls: native Linux, package 2.4.3 present or absent
IdentHosts(pkg) ==
    {[DefaultHost EXCEPT !.pkgconfig_run = "ok", !.pc = (pkg :> e)] :
        e \in {PcOk, PcAbsent}}

\* identifier = get_dep_identifier(dname, kw)
Identify(dname, kw) ==
    /\ phase = "idle"
    /\ phase' = "keyed"
    /\ identifier' = get_dep_identifier(dname, kw)
    /\ name' = dname
    /\ request' = kw
    /\ kwargs' = kw
    /\ UNCHANGED <<class_pkgbin, wx_found, host, outcome, cached>>

IdentifyRequest == \E dname \in {"foo", "bar"}, kw \in IdentKw : Identify(dname, kw)

\* find_external_dependency for the request whose identifier was computed
Resolve ==
    /\ phase = "keyed"
    /\ \E env \in IdentHosts(name) :
       \E out \in {find_external_dependency(name, env, kwargs, class_pkgbin, wx_found)} :
          /\ phase' = "returned"
          /\ class_pkgbin' = out.class_pkgbin
          /\ wx_found' = out.wx_found
          /\ kwargs' = out.kwargs
          /\ host' = env
          /\ outcome' = [exc |-> out.exc, dep |-> out.dep, probes |-> out.probes]
          /\ UNCHANGED <<name, request, identifier, cached>>

\* the caller keeps what the call did under the identifier
Keep ==
    /\ phase = "returned"
    /\ cached' = [key |-> identifier, name |-> name, request |-> request,
                  host |-> host, outcome |-> outcome]
    /\ phase' = "idle"
    /\ name' = ""
    /\ request' = NoKw
    /\ kwargs' = NoKw
    /\ host' = DefaultHost
    /\ outcome' = NoOutcome
    /\ identifier' = NoKey
    /\ UNCHANGED <<class_pkgbin, wx_found>>

NextIdent ==
    \/ IdentifyRequest
    \/ Resolve
    \/ Keep

SpecIdent == Init /\ [][NextIdent]_vars

----------------------------------------------------------------------------
(* Filesystem scans of directories that other processes change: an entry    *)
(* that os.listdir returned may be gone when os.stat examines it, and the   *)
(* scanned directory itself may be gone when it is listed                   *)

\* most entries a scanned directory lists
MaxEntries == 2

\* the listings of at most MaxEntries entries from E
Listings(E) == UNION {[1..k -> E] : k \in 0..MaxEntries}

\* what /Library/Frameworks can hold for the framework fw
FrameworkEntries(fw) ==
    {[d |-> <<fw, ".", "framework">>, kind |-> "dir"],
     [d |-> <<fw, ".", "framework">>, kind |-> "gone"],
     [d |-> <<"Other", ".", "framework">>, kind |-> "gone"],
     [d |-> <<fw, ".", "txt">>, kind |-> "file"]}

\* what the boost header directory can hold
BoostEntries ==
    {[d |-> "thread", kind |-> "dir"], [d |-> "regex", kind |-> "dir"],
     [d |-> "regex", kind |-> "gone"], [d |-> "version.hpp", kind |-> "file"]}

\* a framework scan on OSX for a generic name or for sdl2; pkg-config and
\* sdl2-config are not installed
CallScanFramework ==
    /\ phase = "idle"
    /\ \E n \in {<<"foo", "Foo">>, <<"sdl2", "SDL2">>},
          rootgone \in BOOLEAN,
          kw \in Opt("required", {"True", "False"}) :
        \E l \in IF rootgone THEN {<<>>} ELSE Listings(FrameworkEntries(n[2])) :
            Call(n[1],
                 [DefaultHost EXCEPT !.platform = "osx",
                                     !.frameworks = IF rootgone THEN [k \in {} |-> <<>>]
                                                    ELSE (FrameworkRoot :> l)],
                 kw)

\* a Boost header scan
CallScanBoost ==
    /\ phase = "idle"
    /\ \E l \in Listings(BoostEntries),
          kw \in UpTo(Both(Opt("required", {"True", "False"}),
                           Opt("modules", {[type |-> "str", items |-> <<"thread">>]}))) :
        Call("boost",
             [DefaultHost EXCEPT !.boost = [BOOST_ROOT |-> "absent",
                                            BOOST_INCLUDEDIR |-> FALSE,
                                            version_hpp |-> "ok", entries |-> l,
                                            lib_modules |-> {"thread"}]],
             kw)

NextScan ==
    \/ CallScanFramework
    \/ CallScanBoost
    \/ Return

SpecScan == Init /\ [][NextScan]_vars

----------------------------------------------------------------------------
(* wxwidgets resolved again and again in one process on a host that does    *)
(* not change; the caller keeps what the previous resolution did            *)

WxHosts ==
    {[DefaultHost EXCEPT !.wx.configs = configs,
                         !.wx.version_ret = rets["version"],
                         !.wx.cxxflags_ret = rets["cxxflags"],
                         !.wx.libs_ret = rets["libs"]] :
        configs \in SUBSET {"wx-config-3.0", "wx-config"},
        rets \in [{"version", "cxxflags", "libs"} -> {0, 1}]}

WxRequests ==
    UpTo(Both(Opt("required", {"True", "False"}),
              Opt("version", {[type |-> "str", items |-> <<[op |-> ">=", ver |-> "3.0"]>>],
                              [type |-> "str", items |-> <<[op |-> "<", ver |-> "3.0"]>>]})))

\* the first resolution of the process
CallWxFirst ==
    /\ phase = "idle"
    /\ cached = NoEntry
    /\ \E h \in WxHosts, kw \in WxRequests : Call("wxwidgets", h, kw)

\* a later resolution of the same request on the same host
CallWxAgain ==
    /\ phase = "idle"
    /\ cached.name = "wxwidgets"
    /\ Call("wxwidgets", cached.host, cached.request)

NextWx ==
    \/ CallWxFirst
    \/ Keep
    \/ CallWxAgain

SpecWx == Init /\ [][NextWx]_vars

----------------------------------------------------------------------------
(* get_dep_identifier on requests whose names and module names are the      *)
(* words the key itself is built from                                       *)

KeyNames == {"foo", "main"}

KeyKw ==
    UpTo(Both(Opt("modules", {[type |-> "str", items |-> <<"main">>],
                              [type |-> "list", items |-> <<"main">>],
                              [type |-> "list", items |-> <<"static">>],
                              [type |-> "list", items |-> <<"main", "static">>],
                              [type |-> "list", items |-> <<"static", "main">>],
                              [type |-> "list", items |-> <<"fallback", "sub", "dep">>]}),
         Both(Opt("main", {"True", "False"}),
         Both(Opt("static", {"True"}),
              Opt("fallback", {<<"sub", "dep">>, <<"dep", "sub">>})))))

IdentifyKey == \E dname \in KeyNames, kw \in KeyKw : Identify(dname, kw)

\* the caller remembers the request and the identifier it computed for it
Remember ==
    /\ phase = "keyed"
    /\ cached' = [key |-> identifier, name |-> name, request |-> request,
                  host |-> host, outcome |-> outcome]
    /\ phase' = "idle"
    /\ name' = ""
    /\ request' = NoKw
    /\ kwargs' = NoKw
    /\ identifier' = NoKey
    /\ UNCHANGED <<class_pkgbin, wx_found, host, outcome>>

NextKey ==
    \/ IdentifyKey
    \/ Remember

SpecKey == Init /\ [][NextKey]_vars

----------------------------------------------------------------------------
(* Properties.  A state with phase = "returned" shows one finished call:    *)
(* name, request and host are what it was given, kwargs the caller's option *)
(* bag afterwards, outcome what it raised or returned and what it probed.   *)

Returned == phase = "returned"

\* the required option of the finished call, True when omitted
ReqRequired == Get(request, "required", "True")

Raises == outcome.exc.type # ""

Found == ~Raises /\ outcome.dep.found

NotFound == ~Raises /\ ~outcome.dep.found

\* the finished call ran the pkg-config query op
Ran(op) ==
    \E i \in 1..Len(outcome.probes) :
        outcome.probes[i].mech = "pkgconfig" /\ outcome.probes[i].op = op

\* the finished call ran a pkg-config query of the kind what ("cflags", "libs")
\* that exited nonzero
RanFailing(what, ops) ==
    \E i \in 1..Len(outcome.probes) :
        /\ outcome.probes[i].mech = "pkgconfig"
        /\ outcome.probes[i].op \in ops
        /\ outcome.probes[i].arg \in DOMAIN host.pc
        /\ host.pc[outcome.probes[i].arg][what].ret # 0

\* the package pkg is absent: the tool was not run for it, or its --modversion
\* query exits nonzero
PkgAbsent(pkg) ==
    \/ ~Ran("--modversion")
    \/ pkg \notin DOMAIN host.pc
    \/ host.pc[pkg].modversion.ret # 0

\* the framework directory lists no framework directory named fw
NoFramework(root, fw) ==
    root \in DOMAIN host.frameworks /\
    \A i \in 1..Len(host.frameworks[root]) :
        \/ host.frameworks[root][i].kind # "dir"
        \/ LowerText(SplitOn(host.frameworks[root][i].d, ".")[1]) # <<Lower(fw)>>

ReqModules == Get(request, "modules", [type |-> "list", items |-> <<>>])

\* the declared method set of the kind a name matches, on the host of the call
DeclaredMethods ==
    CASE name = "gl" -> GLDependency_get_methods(host)
      [] name = "sdl2" -> SDL2Dependency_get_methods(host)
      [] name = "python3" -> Python3Dependency_get_methods(host)
      [] name \in {"qt4", "qt5"} -> QtBaseDependency_get_methods
      [] name = "valgrind" -> PkgConfigDependency_get_methods
      [] Lower(name) \notin packages -> PkgConfigDependency_get_methods
      [] OTHER -> Dependency_get_methods

\* the options every variant accepts are well formed
WellFormed ==
    /\ IsBool(ReqRequired)
    /\ IsBool(Get(request, "static", "False"))
    /\ IsBool(Get(request, "native", "False"))
    /\ Get(request, "method", "auto") = "auto"
       \/ In(Get(request, "method", "auto"), DeclaredMethods)
    /\ ReqModules.type # "badlist"
    /\ "version" \in DOMAIN request => request["version"].type \in {"str", "list"}

----------------------------------------------------------------------------
\* C1: a call with required=true, or with required omitted, never returns a
\* result whose found() is false: it returns a found result or it raises.
C1_RequiredNeverNotFound ==
    (Returned /\ ReqRequired = "True") => (Raises \/ outcome.dep.found)

\* a registered kind that reported not found, turned into an error by the
\* dispatcher for a request that omitted required
C1_Witness ==
    /\ Returned /\ name = "gl" /\ "required" \notin DOMAIN request
    /\ outcome.exc.msg = "Dependency not found"

----------------------------------------------------------------------------
\* C2: for a name that is no registered kind, with required=false and
\* otherwise well-formed options, when the metadata tool is missing or its
\* --modversion query exits nonzero and no framework of that name exists, the
\* call returns a result whose found() is false and raises nothing.
C2_GenericAbsentNotFound ==
    (/\ Returned /\ Lower(name) \notin packages
     /\ ReqRequired = "False" /\ WellFormed
     /\ PkgAbsent(name)
     /\ NoFramework(FrameworkRoot, name))
    => NotFound

----------------------------------------------------------------------------
\* the directories the Boost header scan finds
BoostDirs ==
    {host.boost.entries[i].d :
        i \in {j \in 1..Len(host.boost.entries) : host.boost.entries[j].kind = "dir"}}

\* no --cflags or --libs query of the finished call exited nonzero
NoBrokenMetadata ==
    /\ ~RanFailing("cflags", {"--cflags"})
    /\ ~RanFailing("libs", {"--libs", "--libs --static"})

\* the dependency of the finished call, or one of its requested modules, is
\* absent from the host, and nothing else is wrong with the host
CleanlyAbsent ==
    NoBrokenMetadata /\
    CASE name = "boost" ->
            /\ host.boost.BOOST_ROOT # "relative" /\ ~host.cross
            /\ "cpp" \in host.compilers
            /\ \/ host.boost.version_hpp = "missing"
               \/ /\ host.boost.version_hpp = "ok"
                  /\ \E i \in 1..Len(ReqModules.items) : ReqModules.items[i] \notin BoostDirs
      [] name = "gl" -> host.platform = "linux" /\ PkgAbsent("gl")
      [] name = "valgrind" -> PkgAbsent("valgrind")
      [] name = "sdl2" ->
            /\ PkgAbsent("sdl2") /\ "sdl2-config" \notin host.programs
            /\ NoFramework(FrameworkRoot, "sdl2")
      [] name = "python3" ->
            /\ PkgAbsent("python3")
            /\ host.platform = "windows" => host.py3arch # "match"
            /\ NoFramework(FrameworkRoot, "python")
      [] name \in {"qt4", "qt5"} ->
            /\ Len(ReqModules.items) > 0
            /\ \E i \in 1..Len(ReqModules.items) :
                  PkgAbsent(QtPkg(name, ReqModules.items[i]))
            /\ host.programs = {}
      [] name = "gnustep" -> host.gnustep.help # "ok"
      [] name = "appleframeworks" ->
            host.platform # "osx" /\ Len(ReqModules.items) > 0
      [] name = "wxwidgets" -> host.wx.configs = {} /\ wx_found = "None"
      [] name = "GTest" -> host.libfiles = {} /\ host.exists = {}
      [] name = "gmock" -> host.libfiles = {} /\ host.exists = {}
      [] OTHER -> FALSE

\* C3: for every registered kind, a request with required=false whose
\* dependency (or one of its requested modules) is cleanly absent yields a
\* result with found()=false and raises nothing.
C3_AbsentKindNotFound ==
    (/\ Returned /\ Lower(name) \in packages
     /\ ReqRequired = "False" /\ WellFormed
     /\ CleanlyAbsent)
    => NotFound

----------------------------------------------------------------------------
\* C4: when the metadata tool reports the package present but its --cflags or
\* its --libs query exits nonzero, the call raises an error whether required
\* is true or false, for generic names and for every kind that consults the
\* tool, on every platform; it never returns a not-found or fallback result.
C4_BrokenMetadataRaises ==
    (/\ Returned /\ IsBool(ReqRequired)
     /\ \/ RanFailing("cflags", {"--cflags"})
        \/ RanFailing("libs", {"--libs", "--libs --static"}))
    => Raises

----------------------------------------------------------------------------
\* the resolution of the finished call constructs a metadata-tool query
ConstructsQuery ==
    /\ \/ Lower(name) \notin packages
       \/ name \in {"gl", "sdl2", "python3", "valgrind"}
       \/ name \in {"qt4", "qt5"} /\ Len(ReqModules.items) > 0
                                  /\ ReqModules.type # "badlist"
    /\ Get(request, "method", "auto") \in {"auto", "pkgconfig"}

\* C5: a request whose static option is not a boolean makes the call raise a
\* configuration error regardless of required, for every name whose resolution
\* constructs a metadata-tool query; the malformed option never results in a
\* found=false result or in a fallback mechanism being tried.
C5_NonBoolStaticRaises ==
    (/\ Returned /\ IsBool(ReqRequired)
     /\ ~IsBool(Get(request, "static", "False"))
     /\ ConstructsQuery)
    => (Raises /\ outcome.exc.msg = "Static keyword must be boolean")

----------------------------------------------------------------------------
\* C6: a request whose method is neither 'auto' nor a member of the matched
\* kind's declared method set makes the call raise an 'Unsupported detection
\* method' error whether required is true or false; it is never turned into a
\* found=false result and no probe runs before the error.
C6_UnsupportedMethodRaises ==
    (/\ Returned /\ IsBool(ReqRequired)
     /\ "method" \in DOMAIN request
     /\ request["method"] # "auto"
     /\ ~In(request["method"], DeclaredMethods))
    => (Raises /\ outcome.exc.msg = UnsupportedMsg /\ outcome.probes = <<>>)

----------------------------------------------------------------------------
\* C7: if the required option is not a boolean, the call raises a
\* configuration error before any external command is run, any filesystem
\* probe is made or any variant is constructed (the caller's option bag is
\* untouched), and the process-wide pkg-config cache is left unchanged.
C7_NonBoolRequiredRaisesFirst ==
    [][(phase = "idle" /\ phase' = "returned"
        /\ ~IsBool(Get(request', "required", "True")))
       => (/\ outcome'.exc.msg = "Keyword required must be a boolean."
           /\ outcome'.probes = <<>>
           /\ kwargs' = request'
           /\ class_pkgbin' = class_pkgbin
           /\ wx_found' = wx_found)]_vars

\* a call with required='yes' on a host whose pkg-config would have been
\* located: the cache still holds nothing
C7_Witness ==
    /\ Returned /\ name = "gl" /\ ReqRequired = "'yes'"
    /\ host.pkgconfig_run = "ok" /\ ~host.cross
    /\ class_pkgbin = "None"
    /\ outcome.exc.type = "DependencyException"

----------------------------------------------------------------------------
\* the entry of package foo on the host of the finished call
FooEntry == host.pc["foo"]

\* the three queries of package foo all exit 0
FooQueriesOk ==
    /\ "foo" \in DOMAIN host.pc
    /\ FooEntry.modversion.ret = 0 /\ FooEntry.cflags.ret = 0 /\ FooEntry.libs.ret = 0

\* positions of the characters of s that are not whitespace
NonBlank(s) == {i \in 1..Len(s) : s[i] \notin Whitespace}

\* s without its leading and trailing whitespace
Trimmed(s) ==
    IF NonBlank(s) = {} THEN <<>>
    ELSE SubSeq(s, CHOOSE i \in NonBlank(s) : \A j \in NonBlank(s) : i <= j,
                   CHOOSE i \in NonBlank(s) : \A j \in NonBlank(s) : j <= i)

\* positions where a whitespace-separated token of s starts
TokenStarts(s) == {i \in NonBlank(s) : i = 1 \/ (i - 1) \notin NonBlank(s)}

\* the last position of the token that starts at i
TokenEnd(s, i) ==
    CHOOSE j \in i..Len(s) :
        /\ \A k \in i..j : k \in NonBlank(s)
        /\ j = Len(s) \/ (j + 1) \notin NonBlank(s)

\* the whitespace-separated tokens of s, in their order in s
Tokens(s) ==
    LET S == TokenStarts(s)
        nth(k) == CHOOSE i \in S : Cardinality({j \in S : j < i}) = k - 1
    IN [k \in 1..Cardinality(S) |-> SubSeq(s, nth(k), TokenEnd(s, nth(k)))]

\* the version the tool reports for foo, and the constraint list of the request
ReportedVersion == Trimmed(FooEntry.modversion.out)

ReqConstraints == request["version"].items

\* constraint c is satisfied by the reported version
Satisfied(c) == version_compare(TextSegments(ReportedVersion), c)

AllSatisfied == \A i \in 1..Len(ReqConstraints) : Satisfied(ReqConstraints[i])

\* nf lists exactly the unmet constraints of the request
ListsUnmet(nf) ==
    /\ Len(nf) = Cardinality({i \in 1..Len(ReqConstraints) : ~Satisfied(ReqConstraints[i])})
    /\ \A i \in 1..Len(ReqConstraints) :
          ~Satisfied(ReqConstraints[i]) => In(ReqConstraints[i], nf)
    /\ \A j \in 1..Len(nf) : In(nf[j], ReqConstraints) /\ ~Satisfied(nf[j])

\* no token of the --libs output of foo names a libtool archive
NoLibtoolToken ==
    \A i \in 1..Len(Tokens(FooEntry.libs.out)) : ~EndsWithLa(Tokens(FooEntry.libs.out)[i])

\* C8: when the tool reports version V and the request carries a constraint
\* list L (a single string is a one-element list), the result is found iff
\* every constraint of L is satisfied by V; with an unmet constraint a required
\* request raises an error citing V and the unmet constraints, and a
\* non-required request returns found=false without running --cflags or --libs.
C8_VersionConstraints ==
    (/\ Returned /\ name = "foo" /\ FooQueriesOk /\ NoLibtoolToken
     /\ "version" \in DOMAIN request /\ IsBool(ReqRequired))
    => IF AllSatisfied THEN Found
       ELSE IF ReqRequired = "True"
       THEN /\ Raises
            /\ outcome.exc.msg = "Invalid version of dependency"
            /\ outcome.exc.modversion = ReportedVersion
            /\ ListsUnmet(outcome.exc.not_found)
       ELSE /\ NotFound
            /\ ~Ran("--cflags") /\ ~Ran("--libs") /\ ~Ran("--libs --static")

\* a required request with two constraints against version 2.4.3, one of them
\* met and >=3.0 unmet, raised the version error
C8_Witness ==
    /\ Returned /\ name = "foo" /\ "version" \in DOMAIN request
    /\ ReqRequired = "True"
    /\ ReportedVersion = <<"2.4.3">>
    /\ ReqConstraints = <<[op |-> ">=", ver |-> "2.0"], [op |-> ">=", ver |-> "3.0"]>>
    /\ outcome.exc.msg = "Invalid version of dependency"
    /\ outcome.exc.not_found = <<[op |-> ">=", ver |-> "3.0"]>>

----------------------------------------------------------------------------
\* C9: when --modversion, --cflags and --libs all exit 0 and every version
\* constraint is met, the result is found, its version is the trimmed
\* --modversion output, its compile arguments are the whitespace-separated
\* tokens of the --cflags output in order, and its link arguments are the
\* tokens of the --libs output in order (tokens not ending in .la unchanged).
C9_ArgsAreTokens ==
    (/\ Returned /\ name = "foo" /\ FooQueriesOk /\ NoLibtoolToken
     /\ IsBool(ReqRequired)
     /\ "version" \in DOMAIN request => AllSatisfied)
    => /\ Found
       /\ outcome.dep.version = Trimmed(FooEntry.modversion.out)
       /\ outcome.dep.cargs = Tokens(FooEntry.cflags.out)
       /\ outcome.dep.largs = Tokens(FooEntry.libs.out)

\* a found result with two compile arguments and two link arguments, from a
\* version printed with surrounding whitespace and tokens a newline separates
C9_Witness ==
    /\ Returned /\ name = "foo" /\ Found
    /\ "version" \in DOMAIN request
    /\ FooEntry.modversion.out = <<" ", "2.4.3", " ", "\n">>
    /\ FooEntry.cflags.out = <<"-Ia", "\n", "-Ib">>
    /\ FooEntry.libs.out = <<"-la", " ", "-lb">>
    /\ outcome.dep.cargs = << <<"-Ia">>, <<"-Ib">> >>
    /\ outcome.dep.largs = << <<"-la">>, <<"-lb">> >>

----------------------------------------------------------------------------
\* C10: a link token ending in .la whose file declares dlname=libfoo.so.1
\* (unquoted) and no libdir is replaced in the link arguments by
\* <token's directory>/libfoo.so.1 if that path exists, otherwise by
\* <token's directory>/.libs/libfoo.so.1 if that exists; if neither exists the
\* resolution raises a dependency error.
C10_LibtoolResolved ==
    (/\ Returned /\ name = "foo" /\ FooQueriesOk
     /\ host.la_files = (LaToken :> LaUnquoted)
     /\ Ran("--libs"))
    => IF LaDirect \in host.exists
       THEN Found /\ In(LaDirect, outcome.dep.largs)
                  /\ ~In(LaToken, outcome.dep.largs)
       ELSE IF LaDotLibs \in host.exists
       THEN Found /\ In(LaDotLibs, outcome.dep.largs)
                  /\ ~In(LaToken, outcome.dep.largs)
       ELSE Raises /\ outcome.exc.type = "DependencyException"

----------------------------------------------------------------------------
\* the finished call executed the step that locates the pkg-config binary:
\* the --version run of check_pkgconfig, or the search for the cross binary
Located ==
    \E i \in 1..Len(outcome.probes) :
        /\ outcome.probes[i].mech = "pkgconfig"
        /\ outcome.probes[i].op \in {"--version", "which"}

\* C11: across the resolutions of one process that use the metadata tool, the
\* step that locates the tool's binary is executed at most once; a resolution
\* that starts when an earlier lookup has left its outcome in the process-wide
\* cache reuses that outcome and does not locate the binary again.
C11_LocateAtMostOnce ==
    [][(phase = "idle" /\ phase' = "returned" /\ class_pkgbin # "None")
       => ~Located']_vars

----------------------------------------------------------------------------
\* the name of the finished call is resolved by the metadata-tool variant
\* itself: Valgrind, or a generic name where no framework scan follows
ToolVariantOnly ==
    \/ name = "valgrind"
    \/ Lower(name) \notin packages /\ host.platform # "osx"

\* the finished call was made in a cross build, for the target machine
ForTarget == host.cross /\ Get(request, "native", "False") = "False"

\* C12: in a cross build, for a required request that has not pinned
\* native=true, when the cross file has no 'pkgconfig' binary entry the
\* metadata-tool variant raises 'Pkg-config binary missing from cross file'
\* without probing or using any host pkg-config, whatever the host has
\* installed and whatever the process-wide cache holds.
C12_CrossBinaryMissingRaises ==
    [][(/\ phase = "idle" /\ phase' = "returned"
        /\ ToolVariantOnly' /\ ForTarget' /\ WellFormed'
        /\ ReqRequired' = "True"
        /\ "pkgconfig" \notin DOMAIN host'.cross_binaries)
       => (/\ outcome'.exc.type = "DependencyException"
           /\ outcome'.exc.msg = "Pkg-config binary missing from cross file"
           /\ outcome'.probes = <<>>
           /\ class_pkgbin' = class_pkgbin)]_vars

\* the error raised on a machine whose host pkg-config works, in a process
\* whose cache already holds the host pkg-config
C12_Witness ==
    /\ Returned /\ name = "valgrind" /\ ForTarget /\ ReqRequired = "True"
    /\ "pkgconfig" \notin DOMAIN host.cross_binaries
    /\ host.pkgconfig_run = "ok"
    /\ class_pkgbin = "/usr/bin/pkg-config"
    /\ outcome.exc.msg = "Pkg-config binary missing from cross file"

----------------------------------------------------------------------------
\* the module list of a request, a single module string being the list of it
LogicalModules(kw) == Get(kw, "modules", [type |-> "list", items |-> <<>>]).items

\* the fallback pair of a request, <<>> when it has none
LogicalFallback(kw) == Get(kw, "fallback", <<>>)

\* two requests agree in the name, the module list, the main flag, the static
\* flag and the fallback pair
SameLogical(n1, kw1, n2, kw2) ==
    /\ n1 = n2
    /\ LogicalModules(kw1) = LogicalModules(kw2)
    /\ Get(kw1, "main", "False") = Get(kw2, "main", "False")
    /\ Get(kw1, "static", "False") = Get(kw2, "static", "False")
    /\ LogicalFallback(kw1) = LogicalFallback(kw2)

\* the caller has computed the identifier of a request after it kept a result
KeyedAfterKept == phase \in {"keyed", "returned"} /\ cached.key # NoKey

\* C13: get_dep_identifier is a deterministic function of the request: two
\* calls with the same name, the same module list in the same order (a single
\* module string counting as a one-element list), the same main flag, the same
\* static flag and the same fallback pair return equal keys, whatever the
\* process state and the earlier resolutions, and the call leaves the request
\* unchanged.
C13_IdentifierDeterministic ==
    /\ phase = "keyed" => kwargs = request
    /\ (KeyedAfterKept /\ SameLogical(cached.name, cached.request, name, request))
       => identifier = cached.key

\* the same logical request keyed twice, once with its module as a string and
\* once as a list and with different options besides, the second time after a
\* resolution has filled the process-wide cache
C13_Witness ==
    /\ phase = "keyed" /\ cached.key # NoKey
    /\ SameLogical(cached.name, cached.request, name, request)
    /\ "modules" \in DOMAIN request /\ request["modules"].type = "str"
    /\ "modules" \in DOMAIN cached.request /\ cached.request["modules"].type = "list"
    /\ "version" \in DOMAIN request
    /\ class_pkgbin # "None"
    /\ identifier = cached.key

----------------------------------------------------------------------------
\* two calls did the same: both raised, or both returned results with the
\* same found flag, version, compile arguments and link arguments
SameOutcome(o1, o2) ==
    IF o1.exc.type # "" \/ o2.exc.type # ""
    THEN o1.exc.type # "" /\ o2.exc.type # ""
    ELSE /\ o1.dep.found = o2.dep.found
         /\ o1.dep.version = o2.dep.version
         /\ o1.dep.cargs = o2.dep.cargs
         /\ o1.dep.largs = o2.dep.largs

\* C14: whenever two requests have equal identifiers, resolving them against
\* the same host state gives the same outcome (both raise, or both return
\* results with the same found flag, version, compile arguments and link
\* arguments), so the result kept for one can stand in for the other.
C14_EqualKeysSameOutcome ==
    (/\ phase = "returned" /\ cached.key # NoKey
     /\ identifier = cached.key
     /\ host = cached.host)
    => SameOutcome(outcome, cached.outcome)

----------------------------------------------------------------------------
\* the detection mechanisms the request of the finished call allows, in the
\* order QtBaseDependency tries them
QtAllowed ==
    IF Get(request, "method", "auto") = "auto" THEN QtBaseDependency_get_methods
    ELSE <<request["method"]>>

\* the mechanism a label of the error message stands for: qmake is named by
\* the two programs it looks for, "qmake-qt4" or "qmake-qt5" and "qmake"
MechanismOf(label) == IF label = "pkgconfig" THEN "pkgconfig" ELSE "qmake"

\* the mechanisms a list of labels names, each once, in the order of the list
RECURSIVE NamedMechanisms(_)
NamedMechanisms(labels) ==
    IF labels = <<>> THEN <<>>
    ELSE LET rest == NamedMechanisms(Tail(labels))
         IN IF rest # <<>> /\ Head(rest) = MechanismOf(Head(labels)) THEN rest
            ELSE <<MechanismOf(Head(labels))>> \o rest

\* the probes of the finished call were made in the order of the allowed
\* mechanisms, and only for them
ProbedInOrder ==
    /\ \A i \in 1..Len(outcome.probes) :
          outcome.probes[i].mech \in {"pkgconfig", "qmake"}
             => In(outcome.probes[i].mech, QtAllowed)
    /\ \A i, j \in 1..Len(outcome.probes) :
          (i < j /\ outcome.probes[i].mech = "qmake")
             => outcome.probes[j].mech # "pkgconfig"

\* the Qt request of the finished call ran through its mechanisms and none of
\* them found the dependency: it ended without a found result, and with no
\* error other than the one for a dependency that was not found
QtExhausted ==
    /\ Returned /\ name \in {"qt4", "qt5"}
    /\ WellFormed /\ Len(ReqModules.items) > 0
    /\ ~outcome.dep.found
    /\ Raises => outcome.exc.msg = "dependency not found (checked)"

\* C15: for a Qt request, when every allowed mechanism has been tried and
\* none found the dependency: with required=true the resolution raises a
\* dependency error whose message lists exactly the mechanisms attempted, in
\* the order attempted; with required=false it returns a result with
\* found()=false and raises nothing.
C15_QtExhausted ==
    QtExhausted
    => IF ReqRequired = "True"
       THEN /\ outcome.exc.type = "DependencyException"
            /\ outcome.exc.msg = "dependency not found (checked)"
            /\ NamedMechanisms(outcome.exc.checked) = QtAllowed
            /\ ProbedInOrder
       ELSE NotFound /\ ProbedInOrder

\* a required Qt request that tried pkg-config, then qmake, and found nothing
C15_Witness ==
    /\ QtExhausted /\ ReqRequired = "True" /\ "method" \notin DOMAIN request
    /\ Ran("--modversion")
    /\ \E i \in 1..Len(outcome.probes) : outcome.probes[i].mech = "qmake"
    /\ outcome.exc.checked = <<"pkgconfig", QmakeName(name), "qmake">>

----------------------------------------------------------------------------
\* C16: every result object returned by find_external_dependency, found or
\* not found, for every registered kind and for the generic path, answers
\* found(), get_version(), get_compile_args(), get_link_args(), get_sources()
\* and need_threads() with a value and without raising.
C16_AccessorsAnswer ==
    (Returned /\ ~Raises) => outcome.dep.broken = {}

----------------------------------------------------------------------------
\* C17: a request for the 'threads' kind, with any well-formed options and in
\* any host state, returns a result with found()=true, need_threads()=true
\* and version 'unknown', without raising and without running any probe.
C17_ThreadsAlwaysFound ==
    (Returned /\ name = "threads" /\ WellFormed)
    => /\ Found
       /\ outcome.dep.threads
       /\ outcome.dep.version = <<"unknown">>
       /\ outcome.probes = <<>>

----------------------------------------------------------------------------
\* a is greater than b as a list of numbers: greater at the first segment
\* where they differ, or b a proper prefix of a
Greater(a, b) ==
    \/ \E k \in 1..Len(a) :
          /\ k <= Len(b) /\ a[k] > b[k]
          /\ \A i \in 1..(k - 1) : a[i] = b[i]
    \/ Len(a) > Len(b) /\ \A i \in 1..Len(b) : a[i] = b[i]

\* the request of the finished call carries exactly the constraint op b, and
\* the tool reports a version with numeric segments
OneConstraint(op) ==
    /\ Returned /\ name = "foo" /\ FooQueriesOk /\ NoLibtoolToken
    /\ "version" \in DOMAIN request
    /\ Len(ReqConstraints) = 1 /\ ReqConstraints[1].op = op
    /\ TextSegments(ReportedVersion) # <<>>

\* C18: version comparison for constraints is component-wise numeric on the
\* dot-separated segments: 1.10 satisfies '>=1.9' and '>1.9' while 1.9 does
\* not satisfy '>1.10'; for versions a, b whose numeric segments make a
\* greater than b, a satisfies '> b' and b does not satisfy '> a'.
C18_NumericSegments ==
    /\ OneConstraint(">")
       => (Found <=> Greater(TextSegments(ReportedVersion),
                             VersionSegments(ReqConstraints[1].ver)))
    /\ OneConstraint(">=")
       => (Found <=> ~Greater(VersionSegments(ReqConstraints[1].ver),
                              TextSegments(ReportedVersion)))

\* version 1.10 found for the constraint >1.9
C18_Witness ==
    /\ OneConstraint(">") /\ Found
    /\ ReportedVersion = <<"1.10">>
    /\ ReqConstraints[1].ver = "1.9"

----------------------------------------------------------------------------
\* C19: the process-wide pkg-config location cache is written at most once
\* per process: once class_pkgbin holds a value other than None (a path, or
\* False for a failed lookup), no later resolution of any kind, native or
\* cross, changes it.
C19_CacheWrittenOnce ==
    [][class_pkgbin # "None" => class_pkgbin' = class_pkgbin]_vars

----------------------------------------------------------------------------
\* the names under which the pkg-config of the build machine is run
HostPkgConfig == {"pkg-config", "/usr/bin/pkg-config", host.PKG_CONFIG}

\* the programs the finished call ran its metadata queries with
QueryBins ==
    {outcome.probes[i].bin :
        i \in {j \in 1..Len(outcome.probes) :
                 /\ outcome.probes[j].mech = "pkgconfig"
                 /\ outcome.probes[j].op \in {"--modversion", "--cflags", "--libs",
                                              "--libs --static"}}}

\* C20: in a cross build, after any sequence of earlier resolutions, a request
\* pinned native=true runs its metadata queries with the host pkg-config and
\* never with the binary named in the cross file, and a request not pinned
\* native never runs the host pkg-config.
C20_NativePinUsesHostTool ==
    (Returned /\ host.cross /\ "pkgconfig" \in DOMAIN host.cross_binaries)
    => IF Get(request, "native", "False") = "True"
       THEN /\ QueryBins \subseteq HostPkgConfig
            /\ host.cross_binaries["pkgconfig"] \notin QueryBins
       ELSE QueryBins \cap HostPkgConfig = {}

----------------------------------------------------------------------------
\* the place of a mechanism in the chain of the kind the finished call
\* matched; the framework scan of a Qt request is part of its qmake mechanism
ChainRank(mech) ==
    CASE mech = "pkgconfig" -> 1
      [] mech = "sdlconfig" -> 2
      [] mech = "sysconfig" -> 2
      [] mech = "qmake" -> 2
      [] mech = "extraframework" -> IF name = "sdl2" THEN 3 ELSE 2
      [] OTHER -> 1

\* the kinds and names that are resolved by a chain of mechanisms
Chained == Lower(name) \notin packages \/ name \in {"qt4", "qt5", "sdl2", "gl", "python3"}

\* the pkg-config packages the finished call asks for
ChainPackages ==
    IF name \in {"qt4", "qt5"}
    THEN {QtPkg(name, ReqModules.items[i]) : i \in 1..Len(ReqModules.items)}
    ELSE {name}

\* the probes show that pkg-config found every package asked for: its --libs
\* query, the last query of a successful lookup, ran and exited with 0
PkgConfigFound ==
    \A pkg \in ChainPackages :
        \E i \in 1..Len(outcome.probes) :
            /\ outcome.probes[i].mech = "pkgconfig"
            /\ outcome.probes[i].op \in {"--libs", "--libs --static"}
            /\ outcome.probes[i].arg = pkg
            /\ pkg \in DOMAIN host.pc
            /\ host.pc[pkg].libs.ret = 0

\* the probes show that mechanism mech found the dependency
MechanismFound(mech) ==
    CASE mech = "pkgconfig" -> PkgConfigFound
      [] mech = "sdlconfig" ->
            \E i \in 1..Len(outcome.probes) :
                outcome.probes[i].mech = "sdlconfig" /\ outcome.probes[i].op = "--version"
      [] OTHER -> Found

\* the result is the one the system mechanism of gl builds
FoundBySystem ==
    /\ name = "gl" /\ Found
    /\ outcome.dep.largs \in {<<<<"-framework">>, <<"OpenGL">>>>, <<<<"-lopengl32">>>>}

\* C21: in every chain (generic: pkg-config then framework scan; qt4/qt5:
\* pkg-config then qmake; sdl2: pkg-config, sdl2-config, framework; gl:
\* pkg-config then system; python3: pkg-config then sysconfig or framework)
\* the mechanisms are probed one after another in the fixed order, a later
\* mechanism is probed only after the earlier one ended without finding the
\* dependency, and after a mechanism found it no later mechanism is probed.
C21_ChainInOrder ==
    (Returned /\ Chained)
    => /\ \A i, j \in 1..Len(outcome.probes) :
             i < j => /\ ChainRank(outcome.probes[i].mech) <= ChainRank(outcome.probes[j].mech)
                      /\ ChainRank(outcome.probes[i].mech) < ChainRank(outcome.probes[j].mech)
                            => ~MechanismFound(outcome.probes[i].mech)
       /\ FoundBySystem => ~PkgConfigFound

\* an sdl2 request on the framework platform that went through pkg-config and
\* sdl2-config in vain and was found by the framework scan
C21_Witness ==
    /\ Returned /\ name = "sdl2" /\ Found
    /\ Ran("--modversion")
    /\ \E i, j \in 1..Len(outcome.probes) :
          /\ i < j
          /\ outcome.probes[i].mech = "sdlconfig"
          /\ outcome.probes[j].mech = "extraframework"

----------------------------------------------------------------------------
\* the finished call named a detection method other than 'auto' that the
\* kind it matched declares
NamesAllowedMethod ==
    /\ Returned /\ IsBool(ReqRequired)
    /\ "method" \in DOMAIN request
    /\ request["method"] # "auto"
    /\ In(request["method"], DeclaredMethods)

\* the mechanism a probe belongs to; the framework scan of a Qt request is a
\* step of its qmake mechanism
ProbeMechanism(p) ==
    IF name \in {"qt4", "qt5"} /\ p.mech = "extraframework" THEN "qmake" ELSE p.mech

\* C22: when a request names a detection method m other than 'auto' that the
\* kind allows, only mechanism m is attempted: no external command and no
\* filesystem probe of any other mechanism is executed, on any platform, for
\* registered kinds and for generic names.
C22_ExplicitMethodOnly ==
    NamesAllowedMethod
    => \A i \in 1..Len(outcome.probes) :
          ProbeMechanism(outcome.probes[i]) = request["method"]

\* sdl2 asked for by sdl2-config alone on a host whose pkg-config knows sdl2:
\* found, and pkg-config was never run
C22_Witness ==
    /\ NamesAllowedMethod /\ name = "sdl2" /\ request["method"] = "sdlconfig"
    /\ host.pkgconfig_run = "ok" /\ host.pc["sdl2"] = PcOk
    /\ Found
    /\ outcome.probes # <<>>
    /\ ~Ran("--modversion")

----------------------------------------------------------------------------
\* C23: for any kind and any method of that kind's declared method set
\* ('extraframework' for sdl2 or python3 on the framework platform, 'qmake'
\* for qt, 'pkgconfig' for a generic name), the resolution never fails with an
\* 'Unsupported detection method' error, the errors of a nested variant that
\* is handed the same options included.
C23_DeclaredMethodSupported ==
    NamesAllowedMethod => ~(Raises /\ outcome.exc.msg = UnsupportedMsg)

----------------------------------------------------------------------------
\* the finished call returned the result of the metadata tool or of Qt
MetadataOrQtResult ==
    /\ Returned /\ ~Raises
    /\ outcome.dep.cls \in {"PkgConfigDependency", "ValgrindDependency", "QtBaseDependency"}

\* C24: every metadata-tool result and every Qt result returned with
\* found()=false has empty compile arguments and empty link arguments, and a
\* Qt result the version 'none': no flags gathered by a failed or partial
\* attempt remain in a not-found result.
C24_NotFoundCarriesNoFlags ==
    (MetadataOrQtResult /\ ~outcome.dep.found)
    => /\ outcome.dep.cargs = <<>>
       /\ outcome.dep.largs = <<>>
       /\ outcome.dep.cls = "QtBaseDependency" => outcome.dep.version = <<"none">>

\* a Qt request for Core and Gui: pkg-config found Core and collected its
\* flags, Gui was missing, qmake could not help; the result is not found
C24_Witness ==
    /\ MetadataOrQtResult /\ ~outcome.dep.found
    /\ name \in {"qt4", "qt5"}
    /\ ReqModules.items = <<"Core", "Gui">>
    /\ QtPkg(name, "Core") \in DOMAIN host.pc
    /\ host.pc[QtPkg(name, "Core")].cflags.ret = 0
    /\ host.pc[QtPkg(name, "Core")].cflags.out # <<>>
    /\ Ran("--cflags")

----------------------------------------------------------------------------
\* the finished Qt call ran pkg-config, then qmake, and qmake found Qt
QtFoundByQmake ==
    /\ Returned /\ name \in {"qt4", "qt5"} /\ Found
    /\ Ran("--modversion")
    /\ \E i \in 1..Len(outcome.probes) :
          outcome.probes[i].mech = "qmake" /\ outcome.probes[i].op = "-query"

\* the arguments pkg-config printed for the packages of the host
PkgConfigArgs ==
    UNION {{Split(host.pc[pkg].cflags.out)[i] : i \in 1..Len(Split(host.pc[pkg].cflags.out))}
           \cup {Split(host.pc[pkg].libs.out)[i] : i \in 1..Len(Split(host.pc[pkg].libs.out))} :
           pkg \in DOMAIN host.pc}

\* C25: when a Qt request is resolved by qmake after pkg-config failed, the
\* compile and link arguments returned consist only of entries derived from
\* the qmake query (the header directory, one include directory and one
\* library file per requested module); no argument collected from pkg-config
\* for modules found before the pkg-config attempt failed is among them.
C25_QmakeArgsOnly ==
    QtFoundByQmake
    => /\ \A i \in 1..Len(outcome.dep.cargs) : outcome.dep.cargs[i] \notin PkgConfigArgs
       /\ \A i \in 1..Len(outcome.dep.largs) : outcome.dep.largs[i] \notin PkgConfigArgs
       /\ host.platform # "osx"
             => /\ Len(outcome.dep.cargs) = 1 + Len(ReqModules.items)
                /\ Len(outcome.dep.largs) = Len(ReqModules.items)

----------------------------------------------------------------------------
\* both prebuilt gtest libraries are in the library directories of the host
GTestPrebuilt == {"libgtest.so", "libgtest_main.so"} \subseteq host.libfiles

\* the known gtest source directories that exist on the host
GTestSrcPresent == {i \in 1..Len(GTestSrcDirs) : GTestSrcDirs[i] \in host.exists}

\* the first of them in the order of the list
GTestSrcChosen == GTestSrcDirs[CHOOSE i \in GTestSrcPresent : \A j \in GTestSrcPresent : i <= j]

\* the finished call looked for the source directories
GTestSrcConsulted ==
    \E i \in 1..Len(outcome.probes) :
        outcome.probes[i].mech = "gtest" /\ outcome.probes[i].op = "exists"

GTestMain == Truthy(Get(request, "main", "False"))

\* C26: for gtest the source-tree fallback is consulted only when the
\* prebuilt libraries were not found, and it activates only if one of the
\* known source directories exists, the first existing one in list order
\* winning; a found result has exactly one of link arguments and sources
\* non-empty: prebuilt gives ['-lgtest'] plus '-lgtest_main' iff main and no
\* sources, the fallback gives no link arguments and the sources gtest-all.cc
\* plus gtest_main.cc iff main.
C26_GTestPrebuiltOrSources ==
    (Returned /\ Lower(name) = "gtest" /\ ~Raises)
    => /\ GTestSrcConsulted <=> ~GTestPrebuilt
       /\ Found <=> (GTestPrebuilt \/ GTestSrcPresent # {})
       /\ (Found /\ GTestPrebuilt)
             => /\ outcome.dep.largs = <<<<"-lgtest">>>> \o
                       (IF GTestMain THEN <<<<"-lgtest_main">>>> ELSE <<>>)
                /\ outcome.dep.sources = <<>>
       /\ (Found /\ ~GTestPrebuilt)
             => /\ outcome.dep.largs = <<>>
                /\ outcome.dep.sources =
                       <<GTestSrcChosen \o <<"/", "gtest-all.cc">>>> \o
                       (IF GTestMain THEN <<GTestSrcChosen \o <<"/", "gtest_main.cc">>>>
                        ELSE <<>>)

\* gtest with main on a host that has only one of the two prebuilt libraries
\* and both source directories: built from the first source directory
C26_Witness ==
    /\ Returned /\ Lower(name) = "gtest" /\ Found
    /\ host.libfiles = {"libgtest.so"}
    /\ GTestSrcPresent = {1, 2}
    /\ GTestMain
    /\ Len(outcome.dep.sources) = 2
    /\ outcome.dep.sources[1] = GTestSrcDirs[1] \o <<"/", "gtest-all.cc">>

----------------------------------------------------------------------------
\* the finished call scanned the framework directory
ScannedFrameworks ==
    \E i \in 1..Len(outcome.probes) :
        outcome.probes[i].mech = "extraframework" /\ outcome.probes[i].op = "listdir"

\* the finished call scanned the boost header directory
ScannedBoost ==
    \E i \in 1..Len(outcome.probes) :
        outcome.probes[i].mech = "boost" /\ outcome.probes[i].op = "listdir"

\* the scan of the finished call met something that had disappeared: the
\* directory it was about to list, or an entry the listing had returned
ScanMetGone ==
    \/ /\ ScannedFrameworks
       /\ \/ FrameworkRoot \notin DOMAIN host.frameworks
          \/ \E i \in 1..Len(host.frameworks[FrameworkRoot]) :
                host.frameworks[FrameworkRoot][i].kind = "gone"
    \/ /\ ScannedBoost
       /\ \E i \in 1..Len(host.boost.entries) : host.boost.entries[i].kind = "gone"

\* C27: if a directory entry (or the scanned root) disappears between being
\* listed and being examined during a filesystem scan (framework scan, Boost
\* header-module scan), the scan skips that entry and continues; the
\* resolution does not raise because of the disappearance.
C27_VanishedEntrySkipped ==
    (Returned /\ ScanMetGone) => outcome.exc.type # "FileNotFoundError"

----------------------------------------------------------------------------
\* C28: find_external_dependency leaves the caller's option bag unchanged for
\* every kind: after the call returns or raises, every key of the request
\* (in particular 'required') has the value it had before the call.
C28_OptionBagUnchanged ==
    Returned => kwargs = request

----------------------------------------------------------------------------
\* the finished call resolved wxwidgets again: the caller keeps the previous
\* resolution of the same request on the same host
WxResolvedAgain ==
    /\ Returned /\ name = "wxwidgets"
    /\ cached.name = "wxwidgets"
    /\ cached.host = host
    /\ cached.request = request

\* a call searched for the wx-config binary
WxSearched(o) ==
    \E i \in 1..Len(o.probes) : o.probes[i].mech = "wx" /\ o.probes[i].op = "search"

\* C29: resolving 'wxwidgets' repeatedly in one process against an unchanged
\* host gives the same outcome every time: if the first resolution found
\* wx-config and returned a result, every later resolution returns an
\* equivalent result without raising, and the search for the wx-config binary
\* (successful or failed) is performed only by the first resolution.
C29_WxRepeatable ==
    WxResolvedAgain
    => /\ SameOutcome(outcome, cached.outcome)
       /\ cached.outcome.exc.type = "" => ~Raises
       /\ ~WxSearched(outcome)

----------------------------------------------------------------------------
\* C30: get_dep_identifier is injective on well-typed requests: two requests
\* that differ in the name, in the module sequence (content, length or
\* order), in the main flag, in the static flag, or in the presence or content
\* of the fallback pair always get different keys; module names such as
\* 'main', 'static' or 'fallback' cannot make two different requests collide.
C30_IdentifierInjective ==
    (KeyedAfterKept /\ ~SameLogical(cached.name, cached.request, name, request))
    => identifier # cached.key

\* a request with the fallback pair (sub, dep) keyed after a request of the
\* same name whose modules are called fallback, sub and dep
C30_Witness ==
    /\ phase = "keyed" /\ cached.key # NoKey
    /\ name = cached.name
    /\ DOMAIN request = {"fallback"} /\ request["fallback"] = <<"sub", "dep">>
    /\ DOMAIN cached.request = {"modules"}
    /\ cached.request["modules"].items = <<"fallback", "sub", "dep">>
    /\ identifier # cached.key

====
